---- MODULE Spec2Model ----
(***************************************************************************)
(* A model of agent-aggregator: the AgentAggregator class (connection      *)
(* supervision, tool registry, filter, call routing), the MCPConnection    *)
(* class it drives, and the CallTool request handler of index.js.          *)
(*                                                                         *)
(* JavaScript runs one callback at a time, so every action below is the    *)
(* code that runs between two awaits of a real I/O wait (handshake,        *)
(* tools/list, tools/call, client.close, transport.close).                 *)
(*                                                                         *)
(* Strings are sequences of one-character strings, so that includes(),     *)
(* startsWith(), split() and the `${ns}__${name}` template are computed    *)
(* and not assumed.                                                        *)
(***************************************************************************)
EXTENDS Integers, Sequences, FiniteSets, TLC

VARIABLES
  config,        \* this.config.agents: slot -> [enabled, launch, pkg]
  aggregatorConfig, \* this.config.aggregator
  spawned,       \* the MCPConnection objects of the spawn-based variant
  conn,          \* the MCPConnection objects, by object id
  connections,   \* this.connections: a Map, as a sequence of [name, conn]
  tools,         \* this.tools: a Map, as a sequence of entries in insertion order
  initialized,   \* this.initialized
  toolFilter,    \* this.toolFilter
  filterFile,    \* the content of config/filter.json
  initPc,        \* position of the running initialize() call
  inits,         \* number of initialize() calls made so far
  cleanupPc,     \* position of the running cleanup() call
  cleanupWait,   \* the connections the running cleanup() still awaits
  cleanups,      \* number of cleanup() calls made so far
  calls,         \* the tools/call requests in flight, by call number
  ncalls,        \* number of callTool() calls made so far
  serving,       \* index.js: the request handlers are registered
  lastP,         \* arguments of the last filter__update / filter__reset request
  shutdown,      \* history: when the last cleanup() was called and on what
  out            \* what the step just taken returned or threw

vars == <<config, aggregatorConfig, spawned, conn, connections, tools, initialized, toolFilter, filterFile,
          initPc, inits, cleanupPc, cleanupWait, cleanups, calls, ncalls,
          serving, lastP, shutdown, out>>

-----------------------------------------------------------------------------
(* Bounds of the model *)

MaxAgents == 2

MaxInits == 1

MaxCleanups == 2

MaxCalls == 1

MaxSpawned == 2

MaxRounds == 2

-----------------------------------------------------------------------------
(* Strings *)

s_echo == <<"e","c","h","o">>

s_read == <<"r","e","a","d">>

s_fs == <<"f","s">>

s_agentA == <<"a","g","e","n","t","A">>

s_agentB == <<"a","g","e","n","t","B">>

s_agentC == <<"a","g","e","n","t","C">>

s_sep == <<"_","_">>

s_at == <<"@">>

s_slash == <<"/">>

s_slashServer == <<"/","s","e","r","v","e","r","-">>

s_serverDash == <<"s","e","r","v","e","r","-">>

s_filter == <<"f","i","l","t","e","r">>

s_update == <<"u","p","d","a","t","e">>

s_get == <<"g","e","t">>

s_reset == <<"r","e","s","e","t">>

s_nonexistent == <<"n","o","-","t","o","o","l">>

s_aggregator == <<"a","g","g","r","e","g","a","t","o","r">>

\* String.prototype.includes
Includes(s, p) ==
  \E i \in 0..(Len(s) - Len(p)) : SubSeq(s, i + 1, i + Len(p)) = p

\* String.prototype.startsWith
StartsWith(s, p) ==
  Len(p) <= Len(s) /\ SubSeq(s, 1, Len(p)) = p

\* String.prototype.indexOf, 0-based, -1 when absent
IndexOf(s, p) ==
  IF Includes(s, p)
  THEN CHOOSE i \in 0..(Len(s) - Len(p)) :
         /\ SubSeq(s, i + 1, i + Len(p)) = p
         /\ \A j \in 0..(i - 1) : SubSeq(s, j + 1, j + Len(p)) # p
  ELSE -1

\* s.replace(p, r) with a string pattern: the first occurrence only
ReplaceFirst(s, p, r) ==
  LET i == IndexOf(s, p)
  IN IF i < 0 THEN s
     ELSE SubSeq(s, 1, i) \o r \o SubSeq(s, i + Len(p) + 1, Len(s))

\* s.split('/').pop(): what follows the last separator, or all of s
LastSegment(s, sepc) ==
  LET cuts == {i \in 1..Len(s) : s[i] = sepc}
  IN IF cuts = {} THEN s
     ELSE LET k == CHOOSE i \in cuts : \A j \in cuts : j <= i
          IN SubSeq(s, k + 1, Len(s))

-----------------------------------------------------------------------------
(* The configured agents and the downstream servers they launch *)

Agents == 1..MaxAgents

\* agent.name
AgentName(a) ==
  CASE a = 1 -> s_agentA
    [] a = 2 -> s_agentB
    [] a = 3 -> s_agentC
    [] OTHER -> s_agentA

\* agent.connection.args; with pkg "shared" the agent launches the same
\* package as another agent does, with pkg "filter" a package named filter
AgentArgs(a) ==
  CASE config[a].pkg = "shared" -> << <<"@","k","/","f","s">> >>
    [] config[a].pkg = "filter" -> << <<"@","k","/","f","i","l","t","e","r">> >>
    [] a = 1 -> << <<"m",".","j","s">> >>
    [] a = 2 -> << <<"-","y">>, <<"@","m","/","s","e","r","v","e","r","-","f","s">> >>
    [] a = 3 -> << <<"@","k","/","f","s">> >>
    [] OTHER -> << <<"o",".","j","s">> >>

\* the names of the tools the agent's server answers tools/list with; the
\* server of the package named filter has a tool named update
ServerTools(a) ==
  CASE config[a].pkg = "filter" -> <<s_update, s_read>>
    [] a = 1 -> <<s_echo, s_read>>
    [] a = 2 -> <<s_read>>
    [] a = 3 -> <<s_read, s_echo>>
    [] OTHER -> <<s_echo>>

\* "ok": the command starts a server that completes the handshake in time;
\* "invalid": the command cannot be spawned; "slow": no handshake before the
\* timeout fires
LaunchKinds == {"ok", "invalid", "slow"}

PackageKinds == {"own", "shared"}

AgentConfigs == [enabled : BOOLEAN, launch : LaunchKinds, pkg : PackageKinds]

Configs ==
  {c \in [Agents -> AgentConfigs] :
     \A a \in Agents :
       /\ ~c[a].enabled => c[a].launch = "ok"
       /\ c[a].pkg = "shared" => (a = 1 /\ c[a].enabled /\ c[a].launch = "ok")}

\* the aggregator section of the configuration: the defaults of the loader
\* with the documented limit on concurrent connections
DefaultAggregator ==
  [retryAttempts |-> 3, retryDelay |-> 1000, concurrentConnections |-> 2]

\* the aggregator sections a configuration file may hold
AggregatorConfigs ==
  [retryAttempts : {0, 3}, retryDelay : {1000}, concurrentConnections : {1, 2}]

\* this.config.agents.filter(agent => agent.enabled)
EnabledAgents == {a \in Agents : config[a].enabled}

\* AgentAggregator.extractMCPServerName
extractMCPServerName(a) ==
  LET args == AgentArgs(a)
      hits == {i \in 1..Len(args) :
                 StartsWith(args[i], s_at) \/ Includes(args[i], s_slashServer)}
  IN IF hits = {} THEN AgentName(a)
     ELSE LET first == CHOOSE i \in hits : \A j \in hits : i <= j
              packageName == LastSegment(args[first], "/")
          IN IF StartsWith(packageName, s_serverDash)
             THEN ReplaceFirst(packageName, s_serverDash, <<>>)
             ELSE packageName

-----------------------------------------------------------------------------
(* MCPConnection objects *)

\* initialize() makes one new MCPConnection per enabled agent; the objects of
\* as many rounds as any specification makes
ConnIds == 1..((IF MaxRounds > MaxInits THEN MaxRounds ELSE MaxInits) * MaxAgents)

NewConn(round, a) == (round - 1) * MaxAgents + a

\* connection.agentConfig
AgentOf(c) == ((c - 1) % MaxAgents) + 1

\* MCPConnection constructor; pc "unborn" marks an object not yet made.
\* link is the stdio transport's child process: none, starting, up, down.
\* disc is the position of a disconnect() running on the object; closeErr
\* tells that disconnect() has caught and logged an error of a close(),
\* fetchErr that the tool list of the connection could not be retrieved.
NewConnection ==
  [pc |-> "unborn", connected |-> FALSE, client |-> "null",
   transport |-> "null", link |-> "none", disc |-> "idle",
   closeErr |-> FALSE, fetchErr |-> FALSE]

\* MCPConnection.connect up to its await: transport and client are made and
\* client.connect(transport) has spawned the command
ConnectStarted ==
  [pc |-> "handshake", connected |-> FALSE, client |-> "set",
   transport |-> "set", link |-> "starting", disc |-> "idle",
   closeErr |-> FALSE, fetchErr |-> FALSE]

\* MCPConnection.isConnected
isConnected(c) ==
  conn[c].connected /\ conn[c].client # "null" /\ conn[c].transport # "null"

\* MCPConnection.cleanup: what it awaits first
CleanupFirst(r) ==
  IF r.client # "null" THEN "client"
  ELSE IF r.transport # "null" THEN "transport"
  ELSE "finished"

\* MCPConnection.cleanup: what it awaits once client.close() is over
CleanupSecond(r) ==
  IF r.transport # "null" THEN "transport" ELSE "finished"

\* connect()'s catch block: the position of the attempt while cleanup() runs
AbortPc(stage) ==
  CASE stage = "client" -> "abort_client"
    [] stage = "transport" -> "abort_transport"
    [] OTHER -> "failed"

\* disconnect(): the position of the disconnect while cleanup() runs
DiscPc(stage) ==
  CASE stage = "client" -> "client"
    [] stage = "transport" -> "transport"
    [] OTHER -> "idle"

-----------------------------------------------------------------------------
(* The two Maps of the aggregator *)

MapHas(m, key) == \E i \in 1..Len(m) : m[i].key = key

MapIndex(m, key) == CHOOSE i \in 1..Len(m) : m[i].key = key

\* Map.prototype.get
MapGet(m, key) == m[MapIndex(m, key)].val

\* Map.prototype.set: a present key keeps its place, a new one goes last
MapSet(m, key, val) ==
  IF MapHas(m, key)
  THEN [m EXCEPT ![MapIndex(m, key)] = [key |-> key, val |-> val]]
  ELSE Append(m, [key |-> key, val |-> val])

MapKeys(m) == {m[i].key : i \in 1..Len(m)}

MapValues(m) == {m[i].val : i \in 1..Len(m)}

\* `${mcpServerName}__${tool.name}`
PublicId(ns, name) == ns \o s_sep \o name

\* the entry loadToolsFromConnection stores for one tool
ToolEntry(name, a, c) ==
  [originalName |-> name, agentName |-> AgentName(a),
   mcpServerName |-> extractMCPServerName(a), connection |-> c]

RECURSIVE RegisterTools(_, _, _, _)
\* the for loop of loadToolsFromConnection
RegisterTools(reg, list, a, c) ==
  IF list = <<>> THEN reg
  ELSE RegisterTools(
         MapSet(reg, PublicId(extractMCPServerName(a), Head(list)),
                ToolEntry(Head(list), a, c)),
         Tail(list), a, c)

\* MCPConnection.listTools: the tools a tools/list response yields
ResponseFormats == {"result.tools", "tools", "other"}

ToolsOfResponse(a, fmt) ==
  IF fmt \in {"result.tools", "tools"} THEN ServerTools(a) ELSE <<>>

-----------------------------------------------------------------------------
(* The filter file and the policy *)

DefaultFilter ==
  [excludePatterns |-> <<>>, excludeServers |-> <<>>, includePatterns |-> <<>>]

\* AgentAggregator.loadFilterConfig: state "absent" when there is no file,
\* "corrupt" when JSON.parse throws, else "saved" with the record
loadFilterConfig(file) ==
  IF file.state \in {"absent", "corrupt"} THEN DefaultFilter
  ELSE [excludePatterns |-> file.excludePatterns,
        excludeServers |-> file.excludeServers,
        includePatterns |-> file.includePatterns]

-----------------------------------------------------------------------------
(* Results of a step *)

Returned(op) == [op |-> op, kind |-> "returned"]

Pending(op) == [op |-> op, kind |-> "pending"]

Internal == [op |-> "internal", kind |-> "none"]

-----------------------------------------------------------------------------
(* AgentAggregator.initialize *)

RoundConns(r) == {NewConn(r, a) : a \in EnabledAgents}

\* initialize() up to `await Promise.all`: with no enabled agent it returns at
\* once; else every enabled agent's connect() has started (the specifications
\* bound the number of calls)
InitializeStart ==
  /\ initPc = "idle"
  /\ inits' = inits + 1
  /\ IF EnabledAgents = {}
     THEN /\ initialized' = TRUE
          /\ serving' = TRUE
          /\ out' = Returned("initialize")
          /\ UNCHANGED <<conn, initPc>>
     ELSE /\ conn' = [c \in ConnIds |->
                        IF c \in RoundConns(inits + 1) THEN ConnectStarted
                        ELSE conn[c]]
          /\ initPc' = "waiting"
          /\ out' = Pending("initialize")
          /\ UNCHANGED <<initialized, serving>>
  /\ UNCHANGED <<config, aggregatorConfig, spawned, connections, tools, toolFilter, filterFile, cleanupPc,
                 cleanupWait, cleanups, shutdown, calls, ncalls, lastP>>

\* the handshake completes: connect() sets connected and returns,
\* initialize() stores the connection and loadToolsFromConnection sends
\* tools/list
HandshakeOk(c) ==
  /\ conn[c].pc = "handshake"
  /\ config[AgentOf(c)].launch = "ok"
  /\ connections' = MapSet(connections, AgentName(AgentOf(c)), c)
  /\ conn' = [conn EXCEPT ![c] =
                IF conn[c].client # "null"
                THEN [@ EXCEPT !.connected = TRUE, !.link = "up", !.pc = "listing"]
                ELSE [@ EXCEPT !.connected = TRUE, !.link = "up", !.pc = "done"]]
  /\ out' = Internal
  /\ UNCHANGED <<config, aggregatorConfig, spawned, tools, initialized, toolFilter, filterFile, initPc,
                 inits, cleanupPc, cleanupWait, cleanups, shutdown, calls, ncalls,
                 serving, lastP>>

\* Mutant of HandshakeFail: the closure of initialize() has no try/catch, so
\* the rejected connect() rejects Promise.all and initialize() throws
HandshakeFail_Uncaught(c) ==
  /\ conn[c].pc = "handshake"
  /\ config[AgentOf(c)].launch = "invalid"
  /\ conn' = [conn EXCEPT ![c] =
                [@ EXCEPT !.connected = FALSE, !.link = "down",
                          !.pc = AbortPc(CleanupFirst(conn[c]))]]
  /\ initPc' = "idle"
  /\ out' = [op |-> "initialize", kind |-> "threw"]
  /\ UNCHANGED <<config, aggregatorConfig, spawned, connections, tools, initialized, toolFilter,
                 filterFile, inits, cleanupPc, cleanupWait, cleanups, shutdown,
                 calls, ncalls, serving, lastP>>

\* client.connect rejects because the command cannot be spawned: connect()
\* catches and runs this.cleanup()
HandshakeFail(c) ==
  /\ conn[c].pc = "handshake"
  /\ config[AgentOf(c)].launch = "invalid"
  /\ conn' = [conn EXCEPT ![c] =
                [@ EXCEPT !.connected = FALSE, !.link = "down",
                          !.pc = AbortPc(CleanupFirst(conn[c]))]]
  /\ out' = Internal
  /\ UNCHANGED <<config, aggregatorConfig, spawned, connections, tools, initialized, toolFilter,
                 filterFile, initPc, inits, cleanupPc, cleanupWait, cleanups, shutdown,
                 calls, ncalls, serving, lastP>>

\* the timer of Promise.race fires first: connect() catches and runs
\* this.cleanup()
HandshakeTimeout(c) ==
  /\ conn[c].pc = "handshake"
  /\ config[AgentOf(c)].launch = "slow"
  /\ conn' = [conn EXCEPT ![c] =
                [@ EXCEPT !.connected = FALSE,
                          !.pc = AbortPc(CleanupFirst(conn[c]))]]
  /\ out' = Internal
  /\ UNCHANGED <<config, aggregatorConfig, spawned, connections, tools, initialized, toolFilter,
                 filterFile, initPc, inits, cleanupPc, cleanupWait, cleanups, shutdown,
                 calls, ncalls, serving, lastP>>

\* Mutant of HandshakeLate: the late handshake is adopted
HandshakeLate_Adopts(c) ==
  /\ conn[c].pc = "abort_client"
  /\ config[AgentOf(c)].launch = "slow"
  /\ conn[c].link = "starting"
  /\ connections' = MapSet(connections, AgentName(AgentOf(c)), c)
  /\ conn' = [conn EXCEPT ![c] = [@ EXCEPT !.link = "up", !.connected = TRUE]]
  /\ out' = Internal
  /\ UNCHANGED <<config, aggregatorConfig, spawned, tools, initialized, toolFilter, filterFile, initPc,
                 inits, cleanupPc, cleanupWait, cleanups, shutdown, calls,
                 ncalls, serving, lastP>>

\* the server completes the handshake after the timer has fired:
\* client.connect(transport) resolves, but Promise.race has already rejected
\* and connect() is in its catch block
HandshakeLate(c) ==
  /\ conn[c].pc = "abort_client"
  /\ config[AgentOf(c)].launch = "slow"
  /\ conn[c].link = "starting"
  /\ conn' = [conn EXCEPT ![c].link = "up"]
  /\ out' = Internal
  /\ UNCHANGED <<config, aggregatorConfig, spawned, connections, tools, initialized, toolFilter,
                 filterFile, initPc, inits, cleanupPc, cleanupWait, cleanups,
                 shutdown, calls, ncalls, serving, lastP>>

\* cleanup() of a failed connect: client.close() is over, transport.close()
\* starts
AbortClientClosed(c) ==
  /\ conn[c].pc = "abort_client"
  /\ conn' = [conn EXCEPT ![c] =
                [@ EXCEPT !.client = "null", !.link = "down",
                          !.pc = AbortPc(CleanupSecond(conn[c]))]]
  /\ out' = Internal
  /\ UNCHANGED <<config, aggregatorConfig, spawned, connections, tools, initialized, toolFilter,
                 filterFile, initPc, inits, cleanupPc, cleanupWait, cleanups, shutdown,
                 calls, ncalls, serving, lastP>>

\* Mutant of AbortTransportClosed: with retryAttempts set, the failed attempt
\* is made again
AbortTransportClosed_Retry(c) ==
  /\ conn[c].pc = "abort_transport"
  /\ conn' = [conn EXCEPT ![c] =
                IF aggregatorConfig.retryAttempts > 0
                THEN ConnectStarted
                ELSE [@ EXCEPT !.transport = "null", !.link = "down",
                               !.pc = "failed"]]
  /\ out' = Internal
  /\ UNCHANGED <<config, aggregatorConfig, spawned, connections, tools, initialized,
                 toolFilter, filterFile, initPc, inits, cleanupPc, cleanupWait,
                 cleanups, shutdown, calls, ncalls, serving, lastP>>

\* cleanup() of a failed connect ends, connect() throws and initialize()
\* catches: the attempt has settled
AbortTransportClosed(c) ==
  /\ conn[c].pc = "abort_transport"
  /\ conn' = [conn EXCEPT ![c] =
                [@ EXCEPT !.transport = "null", !.link = "down", !.pc = "failed"]]
  /\ out' = Internal
  /\ UNCHANGED <<config, aggregatorConfig, spawned, connections, tools, initialized, toolFilter,
                 filterFile, initPc, inits, cleanupPc, cleanupWait, cleanups, shutdown,
                 calls, ncalls, serving, lastP>>

\* Mutant of ToolsListResponse: the loop of loadToolsFromConnection gives way
\* after the first tool and the rest of the list is not registered
ToolsListResponse_Partial(c, fmt) ==
  /\ conn[c].pc = "listing"
  /\ conn[c].link = "up"
  /\ tools' = RegisterTools(tools,
                            SubSeq(ToolsOfResponse(AgentOf(c), fmt), 1, 1),
                            AgentOf(c), c)
  /\ conn' = [conn EXCEPT ![c].pc = "done"]
  /\ out' = Internal
  /\ UNCHANGED <<config, aggregatorConfig, spawned, connections, initialized,
                 toolFilter, filterFile, initPc, inits, cleanupPc, cleanupWait,
                 cleanups, shutdown, calls, ncalls, serving, lastP>>

\* tools/list is answered: loadToolsFromConnection registers the tools
ToolsListResponse(c, fmt) ==
  /\ conn[c].pc = "listing"
  /\ conn[c].link = "up"
  /\ tools' = RegisterTools(tools, ToolsOfResponse(AgentOf(c), fmt), AgentOf(c), c)
  /\ conn' = [conn EXCEPT ![c].pc = "done"]
  /\ out' = Internal
  /\ UNCHANGED <<config, aggregatorConfig, spawned, connections, initialized, toolFilter, filterFile,
                 initPc, inits, cleanupPc, cleanupWait, cleanups, shutdown, calls, ncalls,
                 serving, lastP>>

\* Mutant of ToolsListError: a failed tool fetch marks the connection
\* disconnected
ToolsListError_Disconnects(c, sdkIssue) ==
  /\ conn[c].pc = "listing"
  /\ sdkIssue => conn[c].link = "up"
  /\ conn' = [conn EXCEPT ![c] =
                [@ EXCEPT !.pc = IF sdkIssue THEN "listing_raw" ELSE "done",
                          !.fetchErr = ~sdkIssue,
                          !.connected = sdkIssue]]
  /\ out' = Internal
  /\ UNCHANGED <<config, aggregatorConfig, spawned, connections, tools, initialized,
                 toolFilter, filterFile, initPc, inits, cleanupPc, cleanupWait,
                 cleanups, shutdown, calls, ncalls, serving, lastP>>

\* tools/list fails. With the message of the SDK incompatibility listTools
\* sends a second, raw request; else it throws and loadToolsFromConnection
\* catches
ToolsListError(c, sdkIssue) ==
  /\ conn[c].pc = "listing"
  /\ sdkIssue => conn[c].link = "up"
  /\ conn' = [conn EXCEPT ![c] =
                [@ EXCEPT !.pc = IF sdkIssue THEN "listing_raw" ELSE "done",
                          !.fetchErr = ~sdkIssue]]
  /\ out' = Internal
  /\ UNCHANGED <<config, aggregatorConfig, spawned, connections, tools, initialized, toolFilter,
                 filterFile, initPc, inits, cleanupPc, cleanupWait, cleanups, shutdown,
                 calls, ncalls, serving, lastP>>

\* the raw tools/list is answered
ToolsListRawResponse(c, fmt) ==
  /\ conn[c].pc = "listing_raw"
  /\ conn[c].link = "up"
  /\ tools' = RegisterTools(tools, ToolsOfResponse(AgentOf(c), fmt), AgentOf(c), c)
  /\ conn' = [conn EXCEPT ![c].pc = "done"]
  /\ out' = Internal
  /\ UNCHANGED <<config, aggregatorConfig, spawned, connections, initialized, toolFilter, filterFile,
                 initPc, inits, cleanupPc, cleanupWait, cleanups, shutdown, calls, ncalls,
                 serving, lastP>>

\* the raw tools/list fails too: listTools returns []
ToolsListRawError(c) ==
  /\ conn[c].pc = "listing_raw"
  /\ tools' = RegisterTools(tools, <<>>, AgentOf(c), c)
  /\ conn' = [conn EXCEPT ![c] = [@ EXCEPT !.pc = "done", !.fetchErr = TRUE]]
  /\ out' = Internal
  /\ UNCHANGED <<config, aggregatorConfig, spawned, connections, initialized, toolFilter, filterFile,
                 initPc, inits, cleanupPc, cleanupWait, cleanups, shutdown, calls, ncalls,
                 serving, lastP>>

\* Mutant of InitializeReturn: Promise.race in place of Promise.all, so the
\* first settled attempt ends initialize()
InitializeReturn_First ==
  /\ initPc = "waiting"
  /\ \E c \in RoundConns(inits) : conn[c].pc \in {"done", "failed"}
  /\ initialized' = TRUE
  /\ initPc' = "idle"
  /\ serving' = TRUE
  /\ out' = Returned("initialize")
  /\ UNCHANGED <<config, aggregatorConfig, spawned, conn, connections, tools, toolFilter, filterFile,
                 inits, cleanupPc, cleanupWait, cleanups, shutdown, calls, ncalls, lastP>>

\* Promise.all resolves: every attempt has settled
InitializeReturn ==
  /\ initPc = "waiting"
  /\ \A c \in RoundConns(inits) : conn[c].pc \in {"done", "failed"}
  /\ initialized' = TRUE
  /\ initPc' = "idle"
  /\ serving' = TRUE
  /\ out' = Returned("initialize")
  /\ UNCHANGED <<config, aggregatorConfig, spawned, conn, connections, tools, toolFilter, filterFile,
                 inits, cleanupPc, cleanupWait, cleanups, shutdown, calls, ncalls, lastP>>

\* the server process of a connection whose tools are loaded exits on its
\* own. MCPConnection registers no handler on the transport or the process,
\* so no field of the object changes.
ServerExit(c) ==
  /\ conn[c].pc = "done"
  /\ conn[c].link = "up"
  /\ conn' = [conn EXCEPT ![c].link = "down"]
  /\ out' = Internal
  /\ UNCHANGED <<config, aggregatorConfig, spawned, connections, tools, initialized,
                 toolFilter, filterFile, initPc, inits, cleanupPc, cleanupWait,
                 cleanups, shutdown, calls, ncalls, serving, lastP>>

-----------------------------------------------------------------------------
(* AgentAggregator.cleanup and MCPConnection.disconnect *)

\* the history before any cleanup() call
NoShutdown == [pc |-> "none", round |-> 0, targets |-> {}, racedRound |-> 0]

\* cleanup() up to `await Promise.all`: disconnect() has started on every
\* connection of the Map; with nothing to await it goes on to clear the Maps
CleanupStart ==
  /\ cleanupPc = "idle"
  /\ cleanups < MaxCleanups
  /\ cleanups' = cleanups + 1
  /\ LET targets == MapValues(connections)
         waiting == {c \in targets : CleanupFirst(conn[c]) # "finished"}
     IN /\ conn' = [c \in ConnIds |->
                      IF c \in targets
                      THEN [conn[c] EXCEPT !.connected = FALSE,
                                           !.disc = DiscPc(CleanupFirst(conn[c]))]
                      ELSE conn[c]]
        /\ shutdown' = [pc |-> initPc, round |-> inits, targets |-> targets,
                        racedRound |-> IF initPc = "waiting" THEN inits
                                       ELSE shutdown.racedRound]
        /\ IF waiting = {}
           THEN /\ connections' = <<>>
                /\ tools' = <<>>
                /\ initialized' = FALSE
                /\ out' = Returned("cleanup")
                /\ UNCHANGED <<cleanupPc, cleanupWait>>
           ELSE /\ cleanupPc' = "waiting"
                /\ cleanupWait' = waiting
                /\ out' = Pending("cleanup")
                /\ UNCHANGED <<connections, tools, initialized>>
  /\ UNCHANGED <<config, aggregatorConfig, spawned, toolFilter, filterFile, initPc, inits, calls, ncalls,
                 serving, lastP>>

\* Mutant of DiscClientClosed: MCPConnection.cleanup has no try/catch around
\* client.close(), so its error rejects disconnect() and, through
\* Promise.all, cleanup()
DiscClientClosed_Uncaught(c, closeThrew) ==
  /\ conn[c].disc = "client"
  /\ IF closeThrew
     THEN /\ conn' = [conn EXCEPT ![c] =
                        [@ EXCEPT !.link = "down", !.closeErr = TRUE,
                                  !.disc = "idle"]]
          /\ cleanupWait' = {}
          /\ cleanupPc' = "idle"
          /\ out' = [op |-> "cleanup", kind |-> "threw"]
     ELSE /\ conn' = [conn EXCEPT ![c] =
                        [@ EXCEPT !.client = "null", !.link = "down",
                                  !.disc = DiscPc(CleanupSecond(conn[c]))]]
          /\ cleanupWait' = IF CleanupSecond(conn[c]) = "finished"
                            THEN cleanupWait \ {c} ELSE cleanupWait
          /\ out' = Internal
          /\ UNCHANGED cleanupPc
  /\ UNCHANGED <<config, aggregatorConfig, spawned, connections, tools, initialized, toolFilter,
                 filterFile, initPc, inits, cleanups, shutdown, calls, ncalls,
                 serving, lastP>>

\* disconnect(): client.close() is over (an error it raised is caught),
\* transport.close() starts
DiscClientClosed(c, closeThrew) ==
  /\ conn[c].disc = "client"
  /\ conn' = [conn EXCEPT ![c] =
                [@ EXCEPT !.client = "null", !.link = "down",
                          !.closeErr = @ \/ closeThrew,
                          !.disc = DiscPc(CleanupSecond(conn[c]))]]
  /\ cleanupWait' = IF CleanupSecond(conn[c]) = "finished"
                    THEN cleanupWait \ {c} ELSE cleanupWait
  /\ out' = Internal
  /\ UNCHANGED <<config, aggregatorConfig, spawned, connections, tools, initialized, toolFilter,
                 filterFile, initPc, inits, cleanupPc, cleanups, shutdown, calls, ncalls,
                 serving, lastP>>

\* disconnect(): transport.close() is over, disconnect() returns
DiscTransportClosed(c, closeThrew) ==
  /\ conn[c].disc = "transport"
  /\ conn' = [conn EXCEPT ![c] =
                [@ EXCEPT !.transport = "null", !.link = "down",
                          !.closeErr = @ \/ closeThrew, !.disc = "idle"]]
  /\ cleanupWait' = cleanupWait \ {c}
  /\ out' = Internal
  /\ UNCHANGED <<config, aggregatorConfig, spawned, connections, tools, initialized, toolFilter,
                 filterFile, initPc, inits, cleanupPc, cleanups, shutdown, calls, ncalls,
                 serving, lastP>>

\* Mutant of CleanupFinish: this.connections.clear() is left out
CleanupFinish_NoClear ==
  /\ cleanupPc = "waiting"
  /\ cleanupWait = {}
  /\ tools' = <<>>
  /\ initialized' = FALSE
  /\ cleanupPc' = "idle"
  /\ out' = Returned("cleanup")
  /\ UNCHANGED <<config, aggregatorConfig, spawned, conn, connections, toolFilter, filterFile, initPc,
                 inits, cleanupWait, cleanups, shutdown, calls, ncalls,
                 serving, lastP>>

\* Promise.all resolves: the Maps are cleared
CleanupFinish ==
  /\ cleanupPc = "waiting"
  /\ cleanupWait = {}
  /\ connections' = <<>>
  /\ tools' = <<>>
  /\ initialized' = FALSE
  /\ cleanupPc' = "idle"
  /\ out' = Returned("cleanup")
  /\ UNCHANGED <<config, aggregatorConfig, spawned, conn, toolFilter, filterFile, initPc, inits,
                 cleanupWait, cleanups, shutdown, calls, ncalls, serving, lastP>>

-----------------------------------------------------------------------------
(* Listing *)

Some(list, Test(_)) == \E i \in 1..Len(list) : Test(list[i])

\* Mutant of shouldIncludeTool: the exclude rules are evaluated before the
\* include patterns
shouldIncludeTool_ExcludeFirst(toolName, tool) ==
  LET filter == toolFilter
      Matches(pattern) ==
        Includes(toolName, pattern) \/ Includes(tool.originalName, pattern)
  IN IF Some(filter.excludeServers, LAMBDA srv : srv = tool.mcpServerName)
     THEN FALSE
     ELSE IF Some(filter.excludePatterns, Matches)
          THEN FALSE
          ELSE IF Len(filter.includePatterns) > 0
               THEN Some(filter.includePatterns, Matches)
               ELSE TRUE

\* Mutant of shouldIncludeTool: excludeServers is compared with the agent's
\* configured name
shouldIncludeTool_ByAgentName(toolName, tool) ==
  LET filter == toolFilter
      Matches(pattern) ==
        Includes(toolName, pattern) \/ Includes(tool.originalName, pattern)
  IN IF Len(filter.includePatterns) > 0
     THEN Some(filter.includePatterns, Matches)
     ELSE IF Some(filter.excludeServers, LAMBDA srv : srv = tool.agentName)
          THEN FALSE
          ELSE IF Some(filter.excludePatterns, Matches)
               THEN FALSE
               ELSE TRUE

\* Mutant of shouldIncludeTool: the patterns are also matched against the
\* description the capabilities are derived from
shouldIncludeTool_ByDescription(toolName, tool) ==
  LET filter == toolFilter
      description ==
        IF "description" \in DOMAIN tool THEN tool.description ELSE <<>>
      Matches(pattern) ==
        \/ Includes(toolName, pattern)
        \/ Includes(tool.originalName, pattern)
        \/ Includes(description, pattern)
  IN IF Len(filter.includePatterns) > 0
     THEN Some(filter.includePatterns, Matches)
     ELSE IF Some(filter.excludeServers, LAMBDA srv : srv = tool.mcpServerName)
          THEN FALSE
          ELSE IF Some(filter.excludePatterns, Matches)
               THEN FALSE
               ELSE TRUE

\* Mutant of shouldIncludeTool: the check of excludeServers is left out
shouldIncludeTool_NoServerRule(toolName, tool) ==
  LET filter == toolFilter
      Matches(pattern) ==
        Includes(toolName, pattern) \/ Includes(tool.originalName, pattern)
  IN IF Len(filter.includePatterns) > 0
     THEN Some(filter.includePatterns, Matches)
     ELSE IF Some(filter.excludePatterns, Matches)
          THEN FALSE
          ELSE TRUE

\* AgentAggregator.shouldIncludeTool
shouldIncludeTool(toolName, tool) ==
  LET filter == toolFilter
      Matches(pattern) ==
        Includes(toolName, pattern) \/ Includes(tool.originalName, pattern)
  IN IF Len(filter.includePatterns) > 0
     THEN Some(filter.includePatterns, Matches)
     ELSE IF Some(filter.excludeServers, LAMBDA srv : srv = tool.mcpServerName)
          THEN FALSE
          ELSE IF Some(filter.excludePatterns, Matches)
               THEN FALSE
               ELSE TRUE

id_filter_update == PublicId(s_filter, s_update)

id_filter_get == PublicId(s_filter, s_get)

id_filter_reset == PublicId(s_filter, s_reset)

\* what listTools returns for one tool
Listed(name, server, agent, originalName) ==
  [name |-> name, server |-> server, agent |-> agent,
   originalName |-> originalName]

\* AgentAggregator.getFilterManagementTools
getFilterManagementTools ==
  << Listed(id_filter_update, "aggregator", "filter-manager", s_update),
     Listed(id_filter_get, "aggregator", "filter-manager", s_get),
     Listed(id_filter_reset, "aggregator", "filter-manager", s_reset) >>

\* Mutant of listToolsResult: the filter management tools pass through the
\* filter like the registry entries
listToolsResult_FilterAll ==
  LET kept == SelectSeq(tools, LAMBDA e : shouldIncludeTool(e.key, e.val))
      regularTools ==
        [i \in 1..Len(kept) |->
           Listed(kept[i].key, kept[i].val.mcpServerName,
                  kept[i].val.agentName, kept[i].val.originalName)]
      filterTools ==
        SelectSeq(getFilterManagementTools,
                  LAMBDA t : shouldIncludeTool(t.name,
                               [originalName |-> t.originalName,
                                agentName |-> t.agent,
                                mcpServerName |-> s_aggregator]))
  IN regularTools \o filterTools

\* the filter and map steps of listTools and the filter management tools
\* appended to them, for the registry reg
listToolsOf(reg) ==
  LET kept == SelectSeq(reg, LAMBDA e : shouldIncludeTool(e.key, e.val))
      regularTools ==
        [i \in 1..Len(kept) |->
           Listed(kept[i].key, kept[i].val.mcpServerName,
                  kept[i].val.agentName, kept[i].val.originalName)]
  IN regularTools \o getFilterManagementTools

\* AgentAggregator.listTools once past the initialized check
listToolsResult == listToolsOf(tools)

\* throw new Error('AgentAggregator not initialized')
NotInitialized == [type |-> "AgentAggregator not initialized"]

\* Mutant of ListTools: the initialized check is left out
ListTools_NoCheck ==
  /\ out' = [op |-> "listTools", kind |-> "returned", tools |-> listToolsResult]
  /\ UNCHANGED <<config, aggregatorConfig, spawned, conn, connections, tools, initialized,
                 toolFilter, filterFile, initPc, inits, cleanupPc, cleanupWait,
                 cleanups, shutdown, calls, ncalls, serving, lastP>>

\* Mutant of ListTools: the filter is applied to this.tools in place
ListTools_Prunes ==
  /\ out' = IF ~initialized
            THEN [op |-> "listTools", kind |-> "threw", error |-> NotInitialized]
            ELSE [op |-> "listTools", kind |-> "returned", tools |-> listToolsResult]
  /\ tools' = IF ~initialized THEN tools
              ELSE SelectSeq(tools, LAMBDA e : shouldIncludeTool(e.key, e.val))
  /\ UNCHANGED <<config, aggregatorConfig, spawned, conn, connections, initialized,
                 toolFilter, filterFile, initPc, inits, cleanupPc, cleanupWait,
                 cleanups, shutdown, calls, ncalls, serving, lastP>>

\* AgentAggregator.listTools
ListTools ==
  /\ out' = IF ~initialized
            THEN [op |-> "listTools", kind |-> "threw", error |-> NotInitialized]
            ELSE [op |-> "listTools", kind |-> "returned", tools |-> listToolsResult]
  /\ UNCHANGED <<config, aggregatorConfig, spawned, conn, connections, tools, initialized, toolFilter,
                 filterFile, initPc, inits, cleanupPc, cleanupWait, cleanups, shutdown,
                 calls, ncalls, serving, lastP>>

-----------------------------------------------------------------------------
(* Status *)

\* String.prototype.toLowerCase, on the letters the model uses
toLowerCase(s) ==
  [i \in 1..Len(s) |->
     CASE s[i] = "A" -> "a"
       [] s[i] = "B" -> "b"
       [] s[i] = "C" -> "c"
       [] OTHER -> s[i]]

\* s.replace(/_/g, ' ')
UnderscoresToSpaces(s) == [i \in 1..Len(s) |-> IF s[i] = "_" THEN " " ELSE s[i]]

\* tool.description || '': the registry entries keep what the server sent
\* ({...tool}); <<>> stands for no description
DescriptionOf(tool) ==
  IF "description" \in DOMAIN tool THEN tool.description ELSE <<>>

\* the patterns of extractCapabilitiesFromTools, by capability
CapabilityPatterns ==
  << [tag |-> "data reading/retrieval",
      words |-> {<<"r","e","a","d">>, <<"l","i","s","t">>,
                 <<"s","e","a","r","c","h">>}],
     [tag |-> "data writing/modification",
      words |-> {<<"w","r","i","t","e">>, <<"c","r","e","a","t","e">>,
                 <<"e","d","i","t">>}],
     [tag |-> "code analysis",
      words |-> {<<"c","o","d","e">>, <<"e","x","p","l","a","i","n">>,
                 <<"r","e","v","i","e","w">>}],
     [tag |-> "AI assistance",
      words |-> {<<"c","h","a","t">>, <<"g","e","n","e","r","a","t","e">>}],
     [tag |-> "file operations",
      words |-> {<<"f","i","l","e">>,
                 <<"d","i","r","e","c","t","o","r","y">>}] >>

\* the capability extractCapabilitiesFromTools maps one tool to: the first
\* pattern group a word of which the lower-cased original name contains,
\* else the name itself. The description is read and not used.
CapabilityOf(tool) ==
  LET toolName == toLowerCase(tool.originalName)
      description == DescriptionOf(tool)
      hits == {g \in 1..Len(CapabilityPatterns) :
                 \E w \in CapabilityPatterns[g].words : Includes(toolName, w)}
  IN IF hits = {}
     THEN [tag |-> "name", name |-> UnderscoresToSpaces(toolName)]
     ELSE [tag |-> CapabilityPatterns[CHOOSE g \in hits :
                                        \A h \in hits : g <= h].tag]

\* AgentAggregator.extractCapabilitiesFromTools, on the registry reg; the
\* result without its order
extractCapabilitiesFromTools(reg, agentName) ==
  LET agentTools == {i \in 1..Len(reg) : reg[i].val.agentName = agentName}
  IN IF agentTools = {} THEN {[tag |-> "no tools available"]}
     ELSE {CapabilityOf(reg[i].val) : i \in agentTools}

\* Array.from(this.tools.values()).filter(tool => tool.agentName === agentName).length
toolCount(agentName) ==
  Cardinality({i \in 1..Len(tools) : tools[i].val.agentName = agentName})

\* AgentAggregator.getServerMetadata: the servers object is keyed by the MCP
\* server name, so of two connections with one server name the later in the
\* Map is kept
getServerMetadata ==
  LET ns(i) == extractMCPServerName(AgentOf(connections[i].val))
      kept == {i \in 1..Len(connections) :
                 \A j \in 1..Len(connections) : ns(j) = ns(i) => j <= i}
  IN [totalConnections |-> Len(connections),
      totalTools |-> Len(tools),
      servers |-> {[server |-> ns(i), agentName |-> connections[i].key,
                    capabilities |->
                      extractCapabilitiesFromTools(tools, connections[i].key),
                    connected |-> isConnected(connections[i].val),
                    toolCount |-> toolCount(connections[i].key),
                    enabled |-> config[AgentOf(connections[i].val)].enabled] :
                   i \in kept}]

\* the object AgentAggregator.getStatus returns; agents in the order of the
\* connections Map
getStatus ==
  [initialized |-> initialized,
   totalConnections |-> Len(connections),
   totalTools |-> Len(tools),
   serverMetadata |-> getServerMetadata,
   agents |-> [i \in 1..Len(connections) |->
                 [name |-> connections[i].key,
                  connected |-> isConnected(connections[i].val),
                  toolCount |-> toolCount(connections[i].key)]]]

\* AgentAggregator.getStatus (custom/status)
GetStatus ==
  /\ out' = [op |-> "getStatus", kind |-> "returned", status |-> getStatus]
  /\ UNCHANGED <<config, aggregatorConfig, spawned, conn, connections, tools,
                 initialized, toolFilter, filterFile, initPc, inits, cleanupPc,
                 cleanupWait, cleanups, shutdown, calls, ncalls, serving, lastP>>

\* AgentAggregator.getAgentsList (custom/agents/list); no code sets
\* connection.tools, so toolCount is 0
GetAgentsList ==
  /\ out' = [op |-> "getAgentsList", kind |-> "returned",
             agents |-> [i \in 1..Len(connections) |->
                           [name |-> AgentName(AgentOf(connections[i].val)),
                            enabled |-> config[AgentOf(connections[i].val)].enabled,
                            connected |-> conn[connections[i].val].connected,
                            toolCount |-> 0]]]
  /\ UNCHANGED <<config, aggregatorConfig, spawned, conn, connections, tools,
                 initialized, toolFilter, filterFile, initPc, inits, cleanupPc,
                 cleanupWait, cleanups, shutdown, calls, ncalls, serving, lastP>>

-----------------------------------------------------------------------------
(* Routing *)

\* the arguments a caller passes; "undefined" when it passes none
ArgValues == {"hi", "undefined"}

\* the default value of callTool's parameter: args = {}
ArgsOrDefault(args) == IF args = "undefined" THEN "{}" ELSE args

\* every public id the configured agents can register
RegistrableIds ==
  UNION {{PublicId(extractMCPServerName(a), ServerTools(a)[i]) :
            i \in 1..Len(ServerTools(a))} : a \in Agents}

\* the public ids callers try: every id the agents can register, an id built
\* from an agent's name and an unknown one
CallIds == RegistrableIds \cup {PublicId(s_agentB, s_read), s_nonexistent}

\* the tools/call request MCPConnection.callTool sends
CallRequest(c, toolName, args) ==
  [conn |-> c, method |-> "tools/call", name |-> toolName, arguments |-> args]

\* what the server behind connection c answers a tools/call request with
ServerResult(c, toolName, args, isError) ==
  [server |-> AgentOf(c), tool |-> toolName, arguments |-> args,
   isError |-> isError]

\* throw new Error(`Tool not found: ${toolName}`)
ToolNotFound(toolName) == [type |-> "Tool not found", id |-> toolName]

\* throw new Error(`Not connected to ${this.agentConfig.name}`)
NotConnected(c) == [type |-> "Not connected to", agent |-> AgentName(AgentOf(c))]

\* throw new Error(`Failed to call tool ${toolName} on ${name}: ${message}`)
FailedToCall(c, toolName, message) ==
  [type |-> "Failed to call tool", tool |-> toolName,
   agent |-> AgentName(AgentOf(c)), message |-> message]

CallOut(kind, toolName, args, sent) ==
  [op |-> "callTool", kind |-> kind, id |-> toolName, args |-> args,
   sent |-> sent]

\* MCPConnection.callTool up to its await: the request it sends, if any
ConnectionSends(c, toolName, args) ==
  IF ~conn[c].connected \/ conn[c].client = "null" THEN <<>>
  ELSE <<CallRequest(c, toolName, args)>>

\* String.prototype.endsWith
EndsWith(s, p) ==
  Len(p) <= Len(s) /\ SubSeq(s, Len(s) - Len(p) + 1, Len(s)) = p

\* Mutant of toolsGet: the lookup falls back to any entry whose original name
\* ends the requested id
toolsGet_BySuffix(toolName) ==
  IF MapHas(tools, toolName) THEN {MapGet(tools, toolName)}
  ELSE {tools[i].val : i \in {j \in 1..Len(tools) :
                                 EndsWith(toolName, tools[j].val.originalName)}}

\* Map.prototype.get on a registry: the entry, or nothing
registryGet(reg, toolName) ==
  IF MapHas(reg, toolName) THEN {MapGet(reg, toolName)} ELSE {}

\* this.tools.get(toolName)
toolsGet(toolName) == registryGet(tools, toolName)

\* Mutant of ForwardedName: the public id is forwarded
ForwardedName_Public(toolName, tool) == toolName

\* the tool name AgentAggregator.callTool passes to the connection
ForwardedName(toolName, tool) == tool.originalName

\* Mutant of callTool: the calls share one lock, so a request is held back
\* while any other is in flight
callTool_SharedLock(toolName, args) ==
  /\ ncalls' = ncalls + 1
  /\ IF ~initialized
     THEN /\ out' = CallOut("threw", toolName, args, <<>>)
                      @@ [error |-> NotInitialized]
          /\ calls' = calls
     ELSE IF toolsGet(toolName) = {}
     THEN /\ out' = CallOut("threw", toolName, args, <<>>)
                      @@ [error |-> ToolNotFound(toolName)]
          /\ calls' = calls
     ELSE LET tool == CHOOSE t \in toolsGet(toolName) : TRUE
              c == tool.connection
              sent == IF calls # {} THEN <<>>
                      ELSE ConnectionSends(c, ForwardedName(toolName, tool),
                                           ArgsOrDefault(args))
          IN IF sent = <<>>
             THEN /\ out' = IF calls # {}
                            THEN CallOut("pending", toolName, args, <<>>)
                            ELSE CallOut("threw", toolName, args, <<>>)
                                   @@ [error |-> NotConnected(c)]
                  /\ calls' = calls
             ELSE /\ out' = CallOut("pending", toolName, args, sent)
                  /\ calls' = calls \cup
                       {[k |-> ncalls + 1, id |-> toolName, args |-> args,
                         request |-> sent[1]]}
  /\ UNCHANGED <<config, aggregatorConfig, spawned, conn, connections, tools,
                 initialized, toolFilter, filterFile, initPc, inits, cleanupPc,
                 cleanupWait, cleanups, shutdown, serving, lastP>>

\* Mutant of callTool: a tool the filter hides is not found
callTool_Filtered(toolName, args) ==
  /\ ncalls' = ncalls + 1
  /\ IF ~initialized
     THEN /\ out' = CallOut("threw", toolName, args, <<>>)
                      @@ [error |-> NotInitialized]
          /\ calls' = calls
     ELSE IF \/ toolsGet(toolName) = {}
             \/ \E t \in toolsGet(toolName) : ~shouldIncludeTool(toolName, t)
     THEN /\ out' = CallOut("threw", toolName, args, <<>>)
                      @@ [error |-> ToolNotFound(toolName)]
          /\ calls' = calls
     ELSE LET tool == CHOOSE t \in toolsGet(toolName) : TRUE
              c == tool.connection
              sent == ConnectionSends(c, ForwardedName(toolName, tool),
                                      ArgsOrDefault(args))
          IN IF sent = <<>>
             THEN /\ out' = CallOut("threw", toolName, args, <<>>)
                              @@ [error |-> NotConnected(c)]
                  /\ calls' = calls
             ELSE /\ out' = CallOut("pending", toolName, args, sent)
                  /\ calls' = calls \cup
                       {[k |-> ncalls + 1, id |-> toolName, args |-> args,
                         request |-> sent[1]]}
  /\ UNCHANGED <<config, aggregatorConfig, spawned, conn, connections, tools,
                 initialized, toolFilter, filterFile, initPc, inits, cleanupPc,
                 cleanupWait, cleanups, shutdown, serving, lastP>>

\* AgentAggregator.callTool up to the await of the downstream request (the
\* specifications bound the number of calls)
callTool(toolName, args) ==
  /\ ncalls' = ncalls + 1
  /\ IF ~initialized
     THEN /\ out' = CallOut("threw", toolName, args, <<>>)
                      @@ [error |-> NotInitialized]
          /\ calls' = calls
     ELSE IF toolsGet(toolName) = {}
     THEN /\ out' = CallOut("threw", toolName, args, <<>>)
                      @@ [error |-> ToolNotFound(toolName)]
          /\ calls' = calls
     ELSE LET tool == CHOOSE t \in toolsGet(toolName) : TRUE
              c == tool.connection
              sent == ConnectionSends(c, ForwardedName(toolName, tool),
                                      ArgsOrDefault(args))
          IN IF sent = <<>>
             THEN /\ out' = CallOut("threw", toolName, args, <<>>)
                              @@ [error |-> NotConnected(c)]
                  /\ calls' = calls
             ELSE /\ out' = CallOut("pending", toolName, args, sent)
                  /\ calls' = calls \cup
                       {[k |-> ncalls + 1, id |-> toolName, args |-> args,
                         request |-> sent[1]]}
  /\ UNCHANGED <<config, aggregatorConfig, spawned, conn, connections, tools, initialized, toolFilter,
                 filterFile, initPc, inits, cleanupPc, cleanupWait, cleanups, shutdown,
                 serving, lastP>>

\* the server answers: MCPConnection.callTool and AgentAggregator.callTool
\* return the response
CallResponse(call, isError) ==
  /\ call \in calls
  /\ conn[call.request.conn].link = "up"
  /\ calls' = calls \ {call}
  /\ out' = [CallOut("returned", call.id, call.args, <<>>) EXCEPT
                !.op = "callTool.settled"]
              @@ [result |-> ServerResult(call.request.conn, call.request.name,
                                          call.request.arguments, isError),
                  request |-> call.request]
  /\ UNCHANGED <<config, aggregatorConfig, spawned, conn, connections, tools, initialized, toolFilter,
                 filterFile, initPc, inits, cleanupPc, cleanupWait, cleanups, shutdown,
                 ncalls, serving, lastP>>

\* why client.request rejects: the per-call timeout, a JSON-RPC error response
\* of the server, or the closed connection
FailureCauses == {"timeout", "rpc error", "closed"}

\* error.message of the rejection. The client library words the timeout and
\* the closed connection; the message of an error response is the server's.
FailureMessages(cause) ==
  CASE cause = "timeout" -> {"Request timed out"}
    [] cause = "closed" -> {"Connection closed"}
    [] OTHER -> {"Request timed out", "Connection closed", "invalid params"}

\* Mutant of CallFailure: a call that times out marks its connection
\* disconnected
CallFailure_Disconnects(call, cause, message) ==
  /\ call \in calls
  /\ cause \in FailureCauses
  /\ message \in FailureMessages(cause)
  /\ cause = "rpc error" => conn[call.request.conn].link = "up"
  /\ cause = "closed" => conn[call.request.conn].link = "down"
  /\ calls' = calls \ {call}
  /\ conn' = IF cause = "timeout"
             THEN [conn EXCEPT ![call.request.conn].connected = FALSE]
             ELSE conn
  /\ out' = [CallOut("threw", call.id, call.args, <<>>) EXCEPT
                !.op = "callTool.settled"]
              @@ [error |-> FailedToCall(call.request.conn, call.request.name,
                                         message),
                  request |-> call.request, cause |-> cause]
  /\ UNCHANGED <<config, aggregatorConfig, spawned, connections, tools,
                 initialized, toolFilter, filterFile, initPc, inits, cleanupPc,
                 cleanupWait, cleanups, shutdown, ncalls, serving, lastP>>

\* client.request rejects: MCPConnection.callTool wraps error.message in a new
\* Error and AgentAggregator.callTool rethrows it. cause is kept as history.
CallFailure(call, cause, message) ==
  /\ call \in calls
  /\ cause \in FailureCauses
  /\ message \in FailureMessages(cause)
  /\ cause = "rpc error" => conn[call.request.conn].link = "up"
  /\ cause = "closed" => conn[call.request.conn].link = "down"
  /\ calls' = calls \ {call}
  /\ out' = [CallOut("threw", call.id, call.args, <<>>) EXCEPT
                !.op = "callTool.settled"]
              @@ [error |-> FailedToCall(call.request.conn, call.request.name,
                                         message),
                  request |-> call.request, cause |-> cause]
  /\ UNCHANGED <<config, aggregatorConfig, spawned, conn, connections, tools, initialized, toolFilter,
                 filterFile, initPc, inits, cleanupPc, cleanupWait, cleanups, shutdown,
                 ncalls, serving, lastP>>

-----------------------------------------------------------------------------
(* The filter policy: updateToolFilter, getToolFilter, saveFilterConfig and  *)
(* the filter__* branches of the CallTool request handler                   *)


FilterFields == {"excludePatterns", "excludeServers", "includePatterns"}

\* the lists a filter__update request carries, by field
FieldLists(f) ==
  CASE f = "excludePatterns" -> {<<>>, <<s_filter, s_read>>}
    [] f = "excludeServers" -> {<<>>, <<s_aggregator, s_fs>>}
    [] OTHER -> {<<>>, <<s_nonexistent>>, <<s_nonexistent, s_fs>>}

\* the arguments object of a filter__update request: any of the three
\* properties may be missing
FilterArgs ==
  UNION {{p \in [S -> UNION {FieldLists(f) : f \in FilterFields}] :
            \A f \in S : p[f] \in FieldLists(f)} : S \in SUBSET FilterFields}

\* filterConfig.x || []
OrEmpty(obj, f) == IF f \in DOMAIN obj THEN obj[f] ELSE <<>>

\* Mutant of updateToolFilter: the two exclude lists are stored in each
\* other's place
updateToolFilter_Swapped(filterConfig) ==
  [excludePatterns |-> OrEmpty(filterConfig, "excludeServers"),
   excludeServers |-> OrEmpty(filterConfig, "excludePatterns"),
   includePatterns |-> OrEmpty(filterConfig, "includePatterns")]

\* Mutant of updateToolFilter: the request is merged into the policy, a list
\* it leaves out keeps its value
updateToolFilter_Merge(filterConfig) ==
  [f \in FilterFields |->
     IF f \in DOMAIN filterConfig THEN filterConfig[f] ELSE toolFilter[f]]

\* the policy updateToolFilter stores
updateToolFilter(filterConfig) ==
  [excludePatterns |-> OrEmpty(filterConfig, "excludePatterns"),
   excludeServers |-> OrEmpty(filterConfig, "excludeServers"),
   includePatterns |-> OrEmpty(filterConfig, "includePatterns")]

\* AgentAggregator.getToolFilter
getToolFilter(filter) ==
  [excludePatterns |-> filter.excludePatterns,
   excludeServers |-> filter.excludeServers,
   includePatterns |-> filter.includePatterns]

\* the record saveFilterConfig writes
SavedRecord(filter) ==
  [state |-> "saved", excludePatterns |-> filter.excludePatterns,
   excludeServers |-> filter.excludeServers,
   includePatterns |-> filter.includePatterns,
   lastUpdated |-> "now", version |-> "1.0.0"]

\* AgentAggregator.saveFilterConfig: the file afterwards; a failed write is
\* caught and logged
saveFilterConfig(file, filter, writeOk) ==
  IF writeOk THEN SavedRecord(filter) ELSE file

\* handler branch filter__update; as history, dropped tells that the policy
\* it replaces had a non-empty list which the request leaves out
FilterUpdate(args, writeOk) ==
  /\ serving
  /\ toolFilter' = updateToolFilter(args)
  /\ filterFile' = saveFilterConfig(filterFile, toolFilter', writeOk)
  /\ lastP' = [set |-> TRUE, args |-> args]
  /\ out' = [op |-> "filter__update", kind |-> "returned",
             filter |-> getToolFilter(toolFilter'),
             dropped |-> \E f \in FilterFields \ DOMAIN args :
                           toolFilter[f] # <<>>]
  /\ UNCHANGED <<config, aggregatorConfig, spawned, conn, connections, tools, initialized, initPc, inits,
                 cleanupPc, cleanupWait, cleanups, shutdown, calls, ncalls, serving>>

\* handler branch filter__update of a request without arguments:
\* updateToolFilter(undefined) throws a TypeError
FilterUpdateNoArguments ==
  /\ serving
  /\ out' = [op |-> "filter__update", kind |-> "threw", error |-> "TypeError"]
  /\ UNCHANGED <<config, aggregatorConfig, spawned, conn, connections, tools, initialized, toolFilter,
                 filterFile, initPc, inits, cleanupPc, cleanupWait, cleanups, shutdown,
                 calls, ncalls, serving, lastP>>

\* handler branch filter__get
FilterGet ==
  /\ serving
  /\ out' = [op |-> "filter__get", kind |-> "returned",
             filter |-> getToolFilter(toolFilter)]
  /\ UNCHANGED <<config, aggregatorConfig, spawned, conn, connections, tools, initialized, toolFilter,
                 filterFile, initPc, inits, cleanupPc, cleanupWait, cleanups, shutdown,
                 calls, ncalls, serving, lastP>>

\* the arguments filter__reset passes to updateToolFilter: {}
ResetArgs == [f \in {} |-> <<>>]

\* handler branch filter__reset
FilterReset(writeOk) ==
  /\ serving
  /\ toolFilter' = updateToolFilter(ResetArgs)
  /\ filterFile' = saveFilterConfig(filterFile, toolFilter', writeOk)
  /\ lastP' = [set |-> TRUE, args |-> ResetArgs]
  /\ out' = [op |-> "filter__reset", kind |-> "returned"]
  /\ UNCHANGED <<config, aggregatorConfig, spawned, conn, connections, tools, initialized, initPc, inits,
                 cleanupPc, cleanupWait, cleanups, shutdown, calls, ncalls, serving>>

\* the process ends and a new one constructs an AgentAggregator
Construct ==
  /\ serving
  /\ conn' = [c \in ConnIds |-> NewConnection]
  /\ connections' = <<>>
  /\ tools' = <<>>
  /\ initialized' = FALSE
  /\ toolFilter' = loadFilterConfig(filterFile)
  /\ initPc' = "idle"
  /\ cleanupPc' = "idle"
  /\ cleanupWait' = {}
  /\ calls' = {}
  /\ serving' = FALSE
  /\ lastP' = [set |-> FALSE]
  /\ out' = [op |-> "construct", kind |-> "returned",
             previous |-> toolFilter, updated |-> lastP.set]
  /\ UNCHANGED <<config, aggregatorConfig, spawned, filterFile, inits, cleanups, shutdown, ncalls>>

-----------------------------------------------------------------------------
(* Specifications *)

\* the spawn-based MCPConnection objects
SpawnIds == 1..MaxSpawned

\* constructor of the spawn-based MCPConnection. child is the operating
\* system's process, killed is child.killed, did lists the close() and
\* kill() calls cleanup() has made, timer is the 5000 ms timer of cleanup(),
\* uncaught tells that a timer callback threw.
NewSpawned ==
  [pc |-> "new", connected |-> FALSE, client |-> "null", transport |-> "null",
   process |-> "null", killed |-> FALSE, child |-> "none", did |-> <<>>,
   timer |-> "none", uncaught |-> FALSE]

\* the state a new AgentAggregator(config) is in
Constructed(file) ==
  /\ spawned = [k \in SpawnIds |-> NewSpawned]
  /\ conn = [c \in ConnIds |-> NewConnection]
  /\ connections = <<>>
  /\ tools = <<>>
  /\ initialized = FALSE
  /\ filterFile = file
  /\ toolFilter = loadFilterConfig(file)
  /\ initPc = "idle"
  /\ inits = 0
  /\ cleanupPc = "idle"
  /\ cleanupWait = {}
  /\ cleanups = 0
  /\ shutdown = NoShutdown
  /\ calls = {}
  /\ ncalls = 0
  /\ serving = FALSE
  /\ lastP = [set |-> FALSE]
  /\ out = [op |-> "construct", kind |-> "returned",
            previous |-> loadFilterConfig(file), updated |-> FALSE]

Init ==
  /\ config \in Configs
  /\ aggregatorConfig = DefaultAggregator
  /\ Constructed([state |-> "absent"])

Next ==
  \/ inits < MaxInits /\ InitializeStart
  \/ \E c \in ConnIds : HandshakeOk(c)
  \/ \E c \in ConnIds : HandshakeFail(c)
  \/ \E c \in ConnIds : HandshakeTimeout(c)
  \/ \E c \in ConnIds : HandshakeLate(c)
  \/ \E c \in ConnIds : AbortClientClosed(c)
  \/ \E c \in ConnIds : AbortTransportClosed(c)
  \/ \E c \in ConnIds, fmt \in ResponseFormats : ToolsListResponse(c, fmt)
  \/ \E c \in ConnIds, sdkIssue \in BOOLEAN : ToolsListError(c, sdkIssue)
  \/ \E c \in ConnIds, fmt \in ResponseFormats : ToolsListRawResponse(c, fmt)
  \/ \E c \in ConnIds : ToolsListRawError(c)
  \/ InitializeReturn
  \/ \E c \in ConnIds : ServerExit(c)
  \/ CleanupStart
  \/ \E c \in ConnIds, closeThrew \in BOOLEAN : DiscClientClosed(c, closeThrew)
  \/ \E c \in ConnIds, closeThrew \in BOOLEAN : DiscTransportClosed(c, closeThrew)
  \/ CleanupFinish
  \/ ListTools
  \/ GetStatus
  \/ \E id \in CallIds, args \in ArgValues :
       ncalls < MaxCalls /\ callTool(id, args)
  \/ \E call \in calls, isError \in BOOLEAN : CallResponse(call, isError)
  \/ \E call \in calls, cause \in FailureCauses :
       \E message \in FailureMessages(cause) : CallFailure(call, cause, message)

Spec == Init /\ [][Next]_vars

\* the configurations of the filter specification: every agent enabled
FilterConfigs ==
  {c \in Configs : \A a \in Agents :
     c[a].enabled /\ c[a].launch # "slow" /\ c[a].pkg = "own"}

\* the filter files a new process may find
InitFiles ==
  {[state |-> "absent"], [state |-> "corrupt"],
   SavedRecord([excludePatterns |-> <<s_filter, s_read>>,
                excludeServers |-> <<>>, includePatterns |-> <<>>])}

FilterInit ==
  /\ config \in FilterConfigs
  /\ aggregatorConfig = DefaultAggregator
  /\ \E file \in InitFiles : Constructed(file)

FilterNext ==
  \/ inits < MaxInits /\ InitializeStart
  \/ \E c \in ConnIds : HandshakeOk(c)
  \/ \E c \in ConnIds : HandshakeFail(c)
  \/ \E c \in ConnIds : AbortClientClosed(c)
  \/ \E c \in ConnIds : AbortTransportClosed(c)
  \/ \E c \in ConnIds, fmt \in ResponseFormats : ToolsListResponse(c, fmt)
  \/ \E c \in ConnIds : ToolsListError(c, FALSE)
  \/ InitializeReturn
  \/ ListTools
  \/ GetStatus
  \/ GetAgentsList
  \/ \E args \in FilterArgs, writeOk \in BOOLEAN : FilterUpdate(args, writeOk)
  \/ FilterUpdateNoArguments
  \/ FilterGet
  \/ \E writeOk \in BOOLEAN : FilterReset(writeOk)
  \/ Construct

FilterSpec == FilterInit /\ [][FilterNext]_vars

-----------------------------------------------------------------------------
(* Views of the state used by the properties *)

\* the Connection state of the design (Idle, Connecting, Ready, Failed,
\* Closing, Closed), read off the MCPConnection object
ConnState(c) ==
  IF conn[c].pc = "unborn" THEN "Idle"
  ELSE IF conn[c].pc = "handshake" THEN "Connecting"
  ELSE IF conn[c].pc \in {"abort_client", "abort_transport", "failed"} THEN "Failed"
  ELSE IF conn[c].connected THEN "Ready"
  ELSE IF conn[c].disc # "idle" THEN "Closing"
  ELSE "Closed"

Settled(c) == conn[c].pc \in {"done", "failed"}

\* exactly one enabled agent has a launch command that cannot be spawned and
\* every other enabled agent starts a server that answers the handshake
OneInvalidRestOk ==
  /\ Cardinality({a \in EnabledAgents : config[a].launch = "invalid"}) = 1
  /\ \A a \in EnabledAgents : config[a].launch \in {"ok", "invalid"}

RegistryOwners == {tools[i].val.connection : i \in 1..Len(tools)}

-----------------------------------------------------------------------------
(* C1 *)

\* C1: with N enabled agents of which exactly one cannot be launched (the
\* others answer the handshake) and no cleanup() called, no step of another
\* attempt ever waits for the failing one (its handshake success, its
\* tools/list answer and the return of initialize() stay enabled), and once
\* initialize() has returned the aggregator is initialized, exactly N-1
\* connections of the call are Ready and in the connections Map, the
\* remaining one is Failed, and every registry entry is owned by a Ready
\* connection.
C1_PartialFailureIsolation ==
  (OneInvalidRestOk /\ cleanups = 0 /\ inits >= 1) =>
    /\ \A c \in RoundConns(inits) :
         /\ (conn[c].pc = "handshake" /\ config[AgentOf(c)].launch = "ok")
              => ENABLED HandshakeOk(c)
         /\ conn[c].pc = "listing" => ENABLED ToolsListResponse(c, "tools")
    /\ (initPc = "waiting" /\ \A c \in RoundConns(inits) : Settled(c))
         => ENABLED InitializeReturn
    /\ initPc = "idle" =>
         /\ initialized
         /\ Cardinality({c \in RoundConns(inits) : ConnState(c) = "Ready"})
              = Cardinality(EnabledAgents) - 1
         /\ \A c \in RoundConns(inits) :
              config[AgentOf(c)].launch = "invalid" => ConnState(c) = "Failed"
         /\ MapValues(connections)
              = {c \in RoundConns(inits) : ConnState(c) = "Ready"}
         /\ \A c \in RegistryOwners : ConnState(c) = "Ready"

\* initialize() has returned for two enabled agents, one of them invalid, and
\* the other one's tools are registered
C1_Witness ==
  /\ OneInvalidRestOk
  /\ Cardinality(EnabledAgents) = 2
  /\ cleanups = 0
  /\ inits >= 1
  /\ initPc = "idle"
  /\ Len(tools) > 0
  /\ \E c \in RoundConns(inits) : ConnState(c) = "Failed"

-----------------------------------------------------------------------------
(* C10 *)

\* C10: a new aggregator is not initialized; initialize() never throws; it is
\* pending exactly while an attempt of it (handshake, failure cleanup or tool
\* fetch) has not settled; and when it returns, with or without enabled
\* agents, every attempt has settled and initialized is true.
C10_InitializeSettlesAll ==
  /\ (inits = 0 /\ cleanups = 0) => ~initialized
  /\ out.op = "initialize" => out.kind \in {"pending", "returned"}
  /\ (out.op = "initialize" /\ out.kind = "pending") => initPc = "waiting"
  /\ (out.op = "initialize" /\ out.kind = "returned") =>
       /\ initialized
       /\ initPc = "idle"
       /\ \A c \in RoundConns(inits) : Settled(c)
  /\ (\E c \in ConnIds : conn[c].pc # "unborn" /\ ~Settled(c)) => initPc = "waiting"
  /\ (inits >= 1 /\ EnabledAgents = {}) => initPc = "idle"

\* initialize() has just returned after one attempt failed and one succeeded
C10_Witness ==
  /\ out.op = "initialize"
  /\ out.kind = "returned"
  /\ \E c \in RoundConns(inits) : conn[c].pc = "failed"
  /\ \E c \in RoundConns(inits) : conn[c].pc = "done"

-----------------------------------------------------------------------------
(* C2 *)

\* C2: a callTool() whose public id is not a key of the registry throws, sends
\* no request to any connection and leaves no request in flight; on an
\* initialized aggregator the error is "Tool not found" naming the requested
\* id (before initialization it is the not-initialized error).
C2_ToolNotFound ==
  (out.op = "callTool" /\ ~MapHas(tools, out.id)) =>
    /\ out.kind = "threw"
    /\ out.sent = <<>>
    /\ \A call \in calls : call.k # ncalls
    /\ initialized => out.error = ToolNotFound(out.id)
    /\ ~initialized => out.error = NotInitialized

\* callTool() has just been given an id built from an agent's name, which the
\* registry does not hold although it holds that agent's tool
C2_Witness ==
  /\ out.op = "callTool"
  /\ initialized
  /\ out.id = PublicId(s_agentB, s_read)
  /\ ~MapHas(tools, out.id)
  /\ MapHas(tools, PublicId(s_fs, s_read))
  /\ out.error = ToolNotFound(PublicId(s_agentB, s_read))

-----------------------------------------------------------------------------
(* C3 *)

\* C3: a callTool() whose public id is in the registry sends at most one
\* request and none to a connection other than the entry's owner; when the
\* aggregator is initialized and the owner is Ready it sends exactly one
\* tools/call request, to the owner, with the entry's original name and the
\* caller's arguments ({} when none were passed), and that request is then in
\* flight; and what callTool() returns is the answer of the connection the
\* request went to, for that name and those arguments.
C3_RouteForwardsToOwner ==
  /\ (out.op = "callTool" /\ MapHas(tools, out.id)) =>
       LET entry == MapGet(tools, out.id)
           owner == entry.connection
       IN /\ Len(out.sent) <= 1
          /\ \A i \in 1..Len(out.sent) : out.sent[i].conn = owner
          /\ (initialized /\ ConnState(owner) = "Ready") =>
               /\ out.kind = "pending"
               /\ out.sent =
                    << [conn |-> owner, method |-> "tools/call",
                        name |-> entry.originalName,
                        arguments |-> IF out.args = "undefined" THEN "{}"
                                      ELSE out.args] >>
               /\ {call.request : call \in {x \in calls : x.k = ncalls}}
                    = {out.sent[1]}
  /\ (out.op = "callTool.settled" /\ out.kind = "returned") =>
       /\ out.result.server = AgentOf(out.request.conn)
       /\ out.result.tool = out.request.name
       /\ out.result.arguments = out.request.arguments
       /\ out.request.arguments = (IF out.args = "undefined" THEN "{}" ELSE out.args)
       /\ out.id = PublicId(extractMCPServerName(AgentOf(out.request.conn)),
                            out.request.name)

\* callTool("fs__read", "hi") has returned the answer of agentB's server
C3_Witness ==
  /\ out.op = "callTool.settled"
  /\ out.kind = "returned"
  /\ out.id = PublicId(s_fs, s_read)
  /\ out.args = "hi"
  /\ out.result = ServerResult(out.request.conn, s_read, "hi", FALSE)
  /\ AgentName(AgentOf(out.request.conn)) = s_agentB

-----------------------------------------------------------------------------
(* Views of a listTools result *)

\* the names listed, in order
ListedNames(listed) == [i \in 1..Len(listed) |-> listed[i].name]

\* the part of a listTools result that precedes the three filter management
\* tools
RegularPart(listed) == SubSeq(listed, 1, Len(listed) - 3)

AdminIds == <<id_filter_update, id_filter_get, id_filter_reset>>

\* the registry keys, in order
RegistryKeys == [i \in 1..Len(tools) |-> tools[i].key]

-----------------------------------------------------------------------------
(* C4 *)

\* C4: when includePatterns is non-empty, listTools returns exactly the
\* registry entries whose public id or original name contains at least one
\* include pattern, followed by the three administrative tools, whatever
\* excludeServers and excludePatterns hold.
C4_IncludeAuthoritative ==
  (out.op = "listTools" /\ out.kind = "returned"
     /\ Len(toolFilter.includePatterns) > 0) =>
    LET Hit(e) == \E i \in 1..Len(toolFilter.includePatterns) :
                    \/ Includes(e.key, toolFilter.includePatterns[i])
                    \/ Includes(e.val.originalName, toolFilter.includePatterns[i])
        hits == SelectSeq(tools, Hit)
    IN ListedNames(out.tools) = [i \in 1..Len(hits) |-> hits[i].key] \o AdminIds

\* listTools has listed fs__read because it matches the include pattern "fs",
\* although excludeServers names fs and excludePatterns names "read"
C4_Witness ==
  /\ out.op = "listTools"
  /\ out.kind = "returned"
  /\ toolFilter.includePatterns = <<s_nonexistent, s_fs>>
  /\ toolFilter.excludeServers = <<s_aggregator, s_fs>>
  /\ toolFilter.excludePatterns = <<s_filter, s_read>>
  /\ MapHas(tools, PublicId(s_agentA, s_echo))
  /\ ListedNames(out.tools) = <<PublicId(s_fs, s_read)>> \o AdminIds

-----------------------------------------------------------------------------
(* C5 *)

\* C5: while the last filter__update carried excludeServers = S and no include
\* patterns, a listTools result lists no registry entry whose namespace
\* (mcpServerName) is in S; if it carried no exclude patterns either, the
\* registry entries listed are exactly those whose namespace is not in S.
C5_ExcludeServersHidden ==
  (lastP.set /\ OrEmpty(lastP.args, "includePatterns") = <<>>
     /\ out.op = "listTools" /\ out.kind = "returned") =>
    LET S == {OrEmpty(lastP.args, "excludeServers")[i] :
                i \in 1..Len(OrEmpty(lastP.args, "excludeServers"))}
        regular == RegularPart(out.tools)
        Outside(e) == e.val.mcpServerName \notin S
        outside == SelectSeq(tools, Outside)
    IN /\ \A i \in 1..Len(regular) : regular[i].server \notin S
       /\ \A i \in 1..Len(tools) :
            tools[i].val.mcpServerName \in S =>
              \A j \in 1..Len(regular) : regular[j].name # tools[i].key
       /\ OrEmpty(lastP.args, "excludePatterns") = <<>> =>
            ListedNames(regular) = [i \in 1..Len(outside) |-> outside[i].key]

\* after filter__update({excludeServers: ["aggregator", "fs"]}) listTools has
\* listed agentA's tools and not fs__read, which the registry holds
C5_Witness ==
  /\ lastP.set
  /\ DOMAIN lastP.args = {"excludeServers"}
  /\ lastP.args["excludeServers"] = <<s_aggregator, s_fs>>
  /\ out.op = "listTools"
  /\ out.kind = "returned"
  /\ MapHas(tools, PublicId(s_fs, s_read))
  /\ ListedNames(out.tools) =
       <<PublicId(s_agentA, s_echo), PublicId(s_agentA, s_read)>> \o AdminIds

-----------------------------------------------------------------------------
(* C6 *)

\* C6: every listTools result, under every filter policy, ends with the three
\* administrative tools filter__update, filter__get and filter__reset.
C6_AdminToolsAlwaysListed ==
  (out.op = "listTools" /\ out.kind = "returned") =>
    /\ Len(out.tools) >= 3
    /\ ListedNames(SubSeq(out.tools, Len(out.tools) - 2, Len(out.tools))) = AdminIds
    /\ \A k \in 1..3 : \E i \in 1..Len(out.tools) : out.tools[i].name = AdminIds[k]

\* listTools has returned under a policy whose exclude patterns contain
\* "filter" and whose excludeServers contain "aggregator"
C6_Witness ==
  /\ out.op = "listTools"
  /\ out.kind = "returned"
  /\ toolFilter.includePatterns = <<>>
  /\ toolFilter.excludePatterns = <<s_filter, s_read>>
  /\ toolFilter.excludeServers = <<s_aggregator, s_fs>>
  /\ Len(tools) > 0
  /\ ListedNames(out.tools) = <<PublicId(s_agentA, s_echo)>> \o AdminIds

-----------------------------------------------------------------------------
(* C7 *)

\* C7: a filter__get that follows filter__update(P), with no other update or
\* reset in between, returns P's excludePatterns, excludeServers and
\* includePatterns (a list P leaves out is returned empty).
C7_UpdateGetRoundTrip ==
  (out.op = "filter__get" /\ lastP.set) =>
    /\ out.kind = "returned"
    /\ \A f \in FilterFields : out.filter[f] = OrEmpty(lastP.args, f)

\* filter__get has returned after a filter__update whose three lists are
\* non-empty and differ from each other
C7_Witness ==
  /\ out.op = "filter__get"
  /\ lastP.set
  /\ DOMAIN lastP.args = FilterFields
  /\ lastP.args["excludePatterns"] = <<s_filter, s_read>>
  /\ lastP.args["excludeServers"] = <<s_aggregator, s_fs>>
  /\ lastP.args["includePatterns"] = <<s_nonexistent>>
  /\ out.filter = [excludePatterns |-> <<s_filter, s_read>>,
                   excludeServers |-> <<s_aggregator, s_fs>>,
                   includePatterns |-> <<s_nonexistent>>]

-----------------------------------------------------------------------------
(* C8 *)

\* C8: when filter__update has returned, the persisted filter record holds the
\* in-memory policy, so that an aggregator constructed next loads that policy.
\* Violated: a failed write is caught inside saveFilterConfig and the handler
\* still reports success.
C8_PersistedBeforeReturn ==
  (out.op = "filter__update" /\ out.kind = "returned") =>
    /\ filterFile.state = "saved"
    /\ loadFilterConfig(filterFile) = toolFilter

-----------------------------------------------------------------------------
(* C9 *)

\* C9: when filter__reset has returned, the policy is the all-empty default and
\* the persisted record holds it; and a listTools that follows the reset
\* returns every registry entry plus the three administrative tools.
\* Violated in its persistence part, by the failed write of C8.
C9_ResetPersistsDefault ==
  /\ out.op = "filter__reset" =>
       /\ toolFilter = DefaultFilter
       /\ filterFile.state = "saved"
       /\ loadFilterConfig(filterFile) = DefaultFilter
  /\ (lastP.set /\ DOMAIN lastP.args = {}
        /\ out.op = "listTools" /\ out.kind = "returned") =>
       ListedNames(out.tools) = RegistryKeys \o AdminIds

-----------------------------------------------------------------------------
(* C11 *)

\* the connections made so far
Born == {c \in ConnIds : conn[c].pc # "unborn"}

\* the connections of the latest initialize() call
LatestConns == {c \in Born : c \in RoundConns(inits)}

\* the connection's server process is running or being started
Live(c) == conn[c].link \in {"starting", "up"}

\* C11: cleanup() never throws; a cleanup() called right after a cleanup()
\* has returned returns at once and changes no connection, neither Map and
\* not the initialized flag; and when a second cleanup() has returned, with
\* no initialize() running and no cleanup() having overlapped the latest
\* initialize(), no connection of that initialize() is live or connected and
\* both Maps are empty.
C11_ShutdownIdempotent ==
  /\ [](out.op = "cleanup" => out.kind \in {"pending", "returned"})
  /\ []((out = Returned("cleanup") /\ cleanups >= 2 /\ initPc = "idle"
           /\ shutdown.racedRound # inits) =>
          /\ connections = <<>>
          /\ tools = <<>>
          /\ ~initialized
          /\ \A c \in LatestConns : ~Live(c) /\ ~conn[c].connected)
  /\ [][(out = Returned("cleanup") /\ CleanupStart) =>
          /\ out' = Returned("cleanup")
          /\ UNCHANGED <<conn, connections, tools, initialized>>]_vars

\* a second cleanup() has returned on an aggregator that had connected a
\* server and been cleaned up once
C11_Witness ==
  /\ out = Returned("cleanup")
  /\ cleanups = 2
  /\ inits = 1
  /\ initPc = "idle"
  /\ shutdown.racedRound = 0
  /\ shutdown.targets = {}
  /\ \E c \in LatestConns : conn[c].pc = "done" /\ conn[c].link = "down"

-----------------------------------------------------------------------------
(* C12 *)

\* C12: a cleanup() never throws; and once a cleanup() that was called while
\* initialize() was awaiting its connection attempts and that initialize()
\* have both finished, no connection is live or connected and the registry
\* is empty.
\* Violated: cleanup() disconnects only the connections already in the Map;
\* an attempt still in its handshake goes on, connects and registers tools.
C12_ShutdownDuringInitialize ==
  /\ out.op = "cleanup" => out.kind \in {"pending", "returned"}
  /\ (shutdown.pc = "waiting" /\ shutdown.round = inits
        /\ initPc = "idle" /\ cleanupPc = "idle") =>
       /\ \A c \in Born : ~Live(c) /\ ~conn[c].connected
       /\ tools = <<>>

-----------------------------------------------------------------------------
(* C13 *)

\* the attempt's timer fired before the handshake completed
TimedOut(c) ==
  /\ config[AgentOf(c)].launch = "slow"
  /\ conn[c].pc \in {"abort_client", "abort_transport", "failed"}

\* C13: a connection whose handshake timed out is Failed, is not marked
\* connected, is not in the connections Map and owns no registry entry, also
\* after its server has completed the handshake late; and it stays so.
C13_NoLateAdoption ==
  /\ [](\A c \in ConnIds :
          TimedOut(c) =>
            /\ ConnState(c) = "Failed"
            /\ ~conn[c].connected
            /\ c \notin MapValues(connections)
            /\ c \notin RegistryOwners)
  /\ [][\A c \in ConnIds : TimedOut(c) => TimedOut(c)']_vars

\* the server of a timed-out attempt has completed the handshake late, while
\* another agent's connection is Ready
C13_Witness ==
  \E c \in ConnIds :
    /\ TimedOut(c)
    /\ conn[c].link = "up"
    /\ \E d \in ConnIds : d # c /\ ConnState(d) = "Ready"

-----------------------------------------------------------------------------
(* C14 *)

\* C14: every registry entry is owned by a connection that is in the
\* connections Map and connected.
\* Violated: cleanup() marks the connections disconnected when it starts and
\* clears the registry only after every disconnect() has returned; nothing
\* removes the entries of a single connection.
C14_EntriesOwnedByReady ==
  \A c \in RegistryOwners :
    /\ conn[c].connected
    /\ c \in MapValues(connections)

-----------------------------------------------------------------------------
(* C15 *)

\* C15: cleanup() never throws; when it returns, every connection that was in
\* the connections Map when it was called is disconnected (not connected,
\* client and transport closed and dropped, server not live), whether or not
\* a close() raised an error, both Maps are empty and initialized is false.
C15_ShutdownClearsAll ==
  /\ out.op = "cleanup" => out.kind \in {"pending", "returned"}
  /\ out = Returned("cleanup") =>
       /\ connections = <<>>
       /\ tools = <<>>
       /\ ~initialized
       /\ cleanupPc = "idle"
       /\ \A c \in shutdown.targets :
            /\ ~conn[c].connected
            /\ conn[c].client = "null"
            /\ conn[c].transport = "null"
            /\ conn[c].disc = "idle"
            /\ ~Live(c)

\* cleanup() has returned after disconnecting two connections with registered
\* tools, the close() of one of which raised an error
C15_Witness ==
  /\ out = Returned("cleanup")
  /\ Cardinality(shutdown.targets) = 2
  /\ shutdown.pc = "idle"
  /\ \E c \in shutdown.targets : conn[c].closeErr
  /\ \E c \in shutdown.targets : ~conn[c].closeErr

-----------------------------------------------------------------------------
(* The spawn-based MCPConnection *)

\* the variables of the aggregator, which the spawn-based connection leaves
\* alone
aggVars ==
  <<config, aggregatorConfig, conn, connections, tools, initialized, toolFilter, filterFile,
    initPc, inits, cleanupPc, cleanupWait, cleanups, calls, ncalls, serving,
    lastP, shutdown, out>>

\* connect() up to its first await: the process is spawned and the 'error'
\* and 'exit' handlers are registered
SpawnStart(k) ==
  /\ spawned[k].pc = "new"
  /\ spawned' = [spawned EXCEPT ![k] =
                   [@ EXCEPT !.pc = "spawned", !.process = "set",
                             !.child = "running"]]
  /\ UNCHANGED aggVars

\* the process exits or fails: the 'exit' / 'error' handler runs
ChildExit(k) ==
  /\ spawned[k].child = "running"
  /\ spawned' = [spawned EXCEPT ![k] =
                   [@ EXCEPT !.child = "exited", !.connected = FALSE]]
  /\ UNCHANGED aggVars

\* connect() after the 100 ms wait: transport and client are made and the
\* handshake starts
SpawnHandshakeStart(k) ==
  /\ spawned[k].pc = "spawned"
  /\ spawned' = [spawned EXCEPT ![k] =
                   [@ EXCEPT !.pc = "handshake", !.client = "set",
                             !.transport = "set"]]
  /\ UNCHANGED aggVars

\* the handshake completes before the timeout
SpawnHandshakeOk(k) ==
  /\ spawned[k].pc = "handshake"
  /\ spawned[k].child = "running"
  /\ spawned' = [spawned EXCEPT ![k] =
                   [@ EXCEPT !.pc = "ready", !.connected = TRUE]]
  /\ UNCHANGED aggVars

\* the handshake fails or times out: connect() catches and runs cleanup()
SpawnHandshakeFail(k) ==
  /\ spawned[k].pc = "handshake"
  /\ spawned' = [spawned EXCEPT ![k] =
                   [@ EXCEPT !.pc = "closing_client", !.connected = FALSE,
                             !.did = Append(@, "client.close")]]
  /\ UNCHANGED aggVars

\* disconnect(): cleanup() up to the await of client.close()
SpawnDisconnect(k) ==
  /\ spawned[k].pc = "ready"
  /\ spawned' = [spawned EXCEPT ![k] =
                   [@ EXCEPT !.pc = "closing_client", !.connected = FALSE,
                             !.did = Append(@, "client.close")]]
  /\ UNCHANGED aggVars

\* cleanup(): client.close() is over, transport.close() starts
SpawnClientClosed(k) ==
  /\ spawned[k].pc = "closing_client"
  /\ spawned' = [spawned EXCEPT ![k] =
                   [@ EXCEPT !.pc = "closing_transport", !.client = "null",
                             !.did = Append(@, "transport.close")]]
  /\ UNCHANGED aggVars

\* cleanup(): transport.close() is over; the process is sent SIGTERM, the
\* 5000 ms timer is set and this.process is dropped. child.killed becomes
\* true when the signal could be delivered.
SpawnTransportClosed(k) ==
  /\ spawned[k].pc = "closing_transport"
  /\ spawned' = [spawned EXCEPT ![k] =
                   IF @.process # "null" /\ ~@.killed
                   THEN [@ EXCEPT !.pc = "closed", !.transport = "null",
                                  !.did = Append(@, "SIGTERM"),
                                  !.killed = (spawned[k].child = "running"),
                                  !.timer = "armed", !.process = "null"]
                   ELSE [@ EXCEPT !.pc = "closed", !.transport = "null"]]
  /\ UNCHANGED aggVars

\* the 5000 ms timer fires and its callback reads this.process.killed: with
\* this.process null that throws a TypeError nothing catches; else SIGKILL
\* is sent unless child.killed is set
GraceTimerFires(k) ==
  /\ spawned[k].timer = "armed"
  /\ spawned' = [spawned EXCEPT ![k] =
                   IF @.process = "null"
                   THEN [@ EXCEPT !.timer = "fired", !.uncaught = TRUE]
                   ELSE IF ~@.killed
                        THEN [@ EXCEPT !.timer = "fired",
                                       !.did = Append(@, "SIGKILL"),
                                       !.killed = TRUE, !.child = "exited"]
                        ELSE [@ EXCEPT !.timer = "fired"]]
  /\ UNCHANGED aggVars

\* the configuration of the spawn specification: every agent enabled
SpawnConfig ==
  [a \in Agents |-> [enabled |-> TRUE, launch |-> "ok", pkg |-> "own"]]

SpawnInit ==
  /\ config = SpawnConfig
  /\ aggregatorConfig = DefaultAggregator
  /\ Constructed([state |-> "absent"])

SpawnNext ==
  \/ \E k \in SpawnIds : SpawnStart(k)
  \/ \E k \in SpawnIds : ChildExit(k)
  \/ \E k \in SpawnIds : SpawnHandshakeStart(k)
  \/ \E k \in SpawnIds : SpawnHandshakeOk(k)
  \/ \E k \in SpawnIds : SpawnHandshakeFail(k)
  \/ \E k \in SpawnIds : SpawnDisconnect(k)
  \/ \E k \in SpawnIds : SpawnClientClosed(k)
  \/ \E k \in SpawnIds : SpawnTransportClosed(k)
  \/ \E k \in SpawnIds : GraceTimerFires(k)

SpawnSpec == SpawnInit /\ [][SpawnNext]_vars

-----------------------------------------------------------------------------
(* C16 *)

\* C16: a disconnect of a Ready connection closes the client, then the
\* transport, then sends SIGTERM, in that order; and when the 5 s timer has
\* fired with the process still running, SIGKILL has been sent.
\* Violated in its second part: the timer callback reads this.process, which
\* cleanup() has already set to null, and throws; SIGKILL is never sent.
C16_GracefulThenForced ==
  \A k \in SpawnIds :
    /\ (spawned[k].pc = "closed" /\ spawned[k].timer # "none") =>
         SubSeq(spawned[k].did, 1, 3) = <<"client.close", "transport.close", "SIGTERM">>
    /\ (spawned[k].timer = "fired" /\ spawned[k].child = "running") =>
         /\ ~spawned[k].uncaught
         /\ \E i \in 1..Len(spawned[k].did) : spawned[k].did[i] = "SIGKILL"

-----------------------------------------------------------------------------
(* C17 *)

\* C17: whenever initialized is false, listTools() and callTool() throw the
\* not-initialized error, callTool() sends no request and leaves none in
\* flight; when initialized is true neither throws that error.
C17_NotInitializedRejected ==
  /\ (out.op \in {"listTools", "callTool"} /\ ~initialized) =>
       /\ out.kind = "threw"
       /\ out.error = NotInitialized
  /\ (out.op = "callTool" /\ ~initialized) =>
       /\ out.sent = <<>>
       /\ \A call \in calls : call.k # ncalls
  /\ (out.op \in {"listTools", "callTool"} /\ initialized) =>
       (out.kind = "threw" => out.error # NotInitialized)

\* listTools() has been rejected while initialize() was still awaiting an
\* attempt, a Ready connection having registered its tools already
C17_Witness ==
  /\ out.op = "listTools"
  /\ out.kind = "threw"
  /\ ~initialized
  /\ initPc = "waiting"
  /\ cleanups = 0
  /\ \E c \in RegistryOwners : ConnState(c) = "Ready"

-----------------------------------------------------------------------------
(* C18 *)

\* what AgentAggregator.callTool(toolName) does in the current state
CallToolOutcome(toolName) ==
  IF ~initialized THEN "NotInitialized"
  ELSE IF toolsGet(toolName) = {} THEN "ToolNotFound"
  ELSE LET tool == CHOOSE t \in toolsGet(toolName) : TRUE
       IN IF ConnectionSends(tool.connection, tool.originalName, "{}") = <<>>
          THEN "NotConnected"
          ELSE "sent"

\* Mutant of HandlerOutcome: the handler passes every name to callTool
HandlerOutcome_Direct(name) == CallToolOutcome(name)

\* the CallTool request handler: the filter tools are served by the handler
\* itself, every other name goes to AgentAggregator.callTool
HandlerOutcome(name) ==
  IF name = id_filter_update THEN "filter__update"
  ELSE IF name = id_filter_get THEN "filter__get"
  ELSE IF name = id_filter_reset THEN "filter__reset"
  ELSE CallToolOutcome(name)

\* C18: every name a listTools result holds is, in the same state, served by
\* the CallTool handler without a ToolNotFound error: the three filter tools
\* by the handler's own branches, every other name by callTool, which finds
\* its registry entry.
C18_ListedIsRoutable ==
  (out.op = "listTools" /\ out.kind = "returned") =>
    \A i \in 1..Len(out.tools) :
      /\ HandlerOutcome(out.tools[i].name) # "ToolNotFound"
      /\ HandlerOutcome(out.tools[i].name) \in {"sent", "NotConnected"} =>
           MapHas(tools, out.tools[i].name)

\* listTools has returned registry entries and the administrative tools
\* while the handlers are registered
C18_Witness ==
  /\ out.op = "listTools"
  /\ out.kind = "returned"
  /\ serving
  /\ Len(out.tools) = 6
  /\ HandlerOutcome(out.tools[1].name) = "sent"
  /\ HandlerOutcome(out.tools[6].name) = "filter__reset"

-----------------------------------------------------------------------------
(* C19 *)

\* C19: every registry entry is keyed by the configured name of the agent
\* that owns it, "__" and the tool's original name.
\* Violated: the namespace is extractMCPServerName(agentConfig), which takes
\* the package name from a launch argument that looks like one.
C19_NamespaceIsAgentName ==
  \A i \in 1..Len(tools) :
    tools[i].key = PublicId(AgentName(AgentOf(tools[i].val.connection)),
                            tools[i].val.originalName)

-----------------------------------------------------------------------------
(* C20 *)

\* loadToolsFromConnection writes no log line about a key that is already in
\* the registry
OverwriteLogged == FALSE

\* C20: a registry entry never passes to another connection while it stays in
\* the registry, unless the overwrite is logged.
\* Violated: this.tools.set replaces the entry of an equal public id without
\* a check or a log line.
C20_NoSilentOverwrite ==
  [][\A i \in 1..Len(tools) :
       (/\ MapHas(tools', tools[i].key)
        /\ MapGet(tools', tools[i].key).connection # tools[i].val.connection)
         => OverwriteLogged]_vars

-----------------------------------------------------------------------------
(* C21 *)

\* the characters the strings of the model are made of, in code-unit order
Alphabet ==
  <<"-", ".", "/", "@", "A", "B", "C", "_", "a", "b", "c", "d", "e", "f", "g",
    "h", "i", "j", "k", "l", "m", "n", "o", "p", "q", "r", "s", "t", "u", "v",
    "w", "x", "y", "z">>

CharCode(ch) == CHOOSE i \in 1..Len(Alphabet) : Alphabet[i] = ch

\* s < t for two strings: the comparison of JavaScript, by code units
StrLess(s, t) ==
  \E i \in 1..(Len(t)) :
    /\ i <= Len(s) + 1
    /\ SubSeq(s, 1, i - 1) = SubSeq(t, 1, i - 1)
    /\ i <= Len(s) => CharCode(s[i]) < CharCode(t[i])

\* x comes before y in the order by namespace, then original name
ListedBefore(x, y) ==
  \/ StrLess(x.server, y.server)
  \/ x.server = y.server /\ StrLess(x.originalName, y.originalName)

\* C21: the registry entries of every listTools result are in the order of
\* their namespace, then of their original name, whatever the order in which
\* the connection attempts completed.
\* Violated: listTools walks this.tools.entries(), the insertion order of the
\* Map, and never sorts.
C21_ListOrderDeterministic ==
  (out.op = "listTools" /\ out.kind = "returned") =>
    LET regular == RegularPart(out.tools)
    IN \A i, j \in 1..Len(regular) :
         i < j => ListedBefore(regular[i], regular[j])

-----------------------------------------------------------------------------
(* C22 *)

\* the errors callTool() can throw for a request to connection c for tool
\* toolName that failed for the given cause
FailureErrors(cause, c, toolName) ==
  {FailedToCall(c, toolName, message) : message \in FailureMessages(cause)}

\* C22: the error of a failed callTool() tells its cause: the errors thrown
\* before a request is sent are the not-initialized, the tool-not-found or
\* the not-connected error, each for its own condition, and the error of a
\* request that timed out is never one that an error response of the server
\* to the same request produces, nor the other way round.
\* Violated: MCPConnection.callTool rethrows every rejection as a plain Error
\* "Failed to call tool ...: " + error.message, so an error response carrying
\* the message of the timeout yields the very error of a timeout.
C22_FailuresDistinct ==
  /\ (out.op = "callTool" /\ out.kind = "threw") =>
       /\ out.error.type \in {NotInitialized.type, "Tool not found", "Not connected to"}
       /\ out.error.type = NotInitialized.type <=> ~initialized
       /\ out.error.type = "Tool not found" <=> (initialized /\ ~MapHas(tools, out.id))
  /\ (out.op = "callTool.settled" /\ out.kind = "threw") =>
       \A other \in FailureCauses \ {out.cause} :
         ({out.cause, other} = {"timeout", "rpc error"}) =>
           out.error \notin FailureErrors(other, out.request.conn, out.request.name)

-----------------------------------------------------------------------------
(* C23 *)

\* C23: a callTool() on an initialized aggregator for a registered tool whose
\* owning connection is not Ready (its server has exited since the tools were
\* registered, or cleanup() has begun to disconnect it) throws the
\* not-connected error, sends no request and leaves none in flight.
\* Violated for the exited server: nothing tells the MCPConnection that its
\* process is gone, connected stays true and callTool() hands the request to
\* the client.
C23_UnavailableConnection ==
  (out.op = "callTool" /\ initialized /\ MapHas(tools, out.id)) =>
    LET owner == MapGet(tools, out.id).connection
    IN (ConnState(owner) # "Ready" \/ conn[owner].link # "up") =>
         /\ out.kind = "threw"
         /\ out.error = NotConnected(owner)
         /\ out.sent = <<>>
         /\ \A call \in calls : call.k # ncalls

-----------------------------------------------------------------------------
(* C24 *)

\* C24: initialize() never throws; while no cleanup() has been called, a
\* connection of the latest initialize() whose tool list could not be
\* retrieved has settled, is
\* connected and Ready, is in the connections Map under its agent's name and
\* owns no registry entry, and initialize() can return once every attempt
\* has settled; and the step in which the fetch fails leaves the registry as
\* it was.
C24_ToolFetchErrorKeepsReady ==
  /\ [](out.op = "initialize" => out.kind \in {"pending", "returned"})
  /\ [](\A c \in LatestConns :
          (conn[c].fetchErr /\ cleanups = 0) =>
            /\ conn[c].pc = "done"
            /\ conn[c].connected
            /\ ConnState(c) = "Ready"
            /\ MapHas(connections, AgentName(AgentOf(c)))
            /\ MapGet(connections, AgentName(AgentOf(c))) = c
            /\ c \notin RegistryOwners
            /\ (initPc = "waiting" /\ \A d \in RoundConns(inits) : Settled(d))
                 => ENABLED InitializeReturn)
  /\ [][\A c \in ConnIds :
          (~conn[c].fetchErr /\ conn'[c].fetchErr) =>
            /\ tools' = tools
            /\ connections' = connections
            /\ out'.kind # "threw"]_vars

\* initialize() has returned with one connection Ready whose tool fetch
\* failed and another whose tools are registered
C24_Witness ==
  /\ out = Returned("initialize")
  /\ initialized
  /\ cleanups = 0
  /\ \E c \in ConnIds :
       /\ conn[c].fetchErr
       /\ isConnected(c)
       /\ c \in MapValues(connections)
       /\ c \notin RegistryOwners
       /\ \E d \in RegistryOwners : d # c

-----------------------------------------------------------------------------
(* The connection attempts of initialize() under every aggregator section *)

ConnectInit ==
  /\ config \in Configs
  /\ aggregatorConfig \in AggregatorConfigs
  /\ Constructed([state |-> "absent"])

ConnectNext ==
  \/ inits < MaxInits /\ InitializeStart
  \/ \E c \in ConnIds : HandshakeOk(c)
  \/ \E c \in ConnIds : HandshakeFail(c)
  \/ \E c \in ConnIds : HandshakeTimeout(c)
  \/ \E c \in ConnIds : HandshakeLate(c)
  \/ \E c \in ConnIds : AbortClientClosed(c)
  \/ \E c \in ConnIds : AbortTransportClosed(c)
  \/ \E c \in ConnIds, fmt \in ResponseFormats : ToolsListResponse(c, fmt)
  \/ \E c \in ConnIds, sdkIssue \in BOOLEAN : ToolsListError(c, sdkIssue)
  \/ \E c \in ConnIds, fmt \in ResponseFormats : ToolsListRawResponse(c, fmt)
  \/ \E c \in ConnIds : ToolsListRawError(c)
  \/ InitializeReturn

ConnectSpec == ConnectInit /\ [][ConnectNext]_vars

-----------------------------------------------------------------------------
(* C25 *)

-----------------------------------------------------------------------------
(* C26 *)

\* C26: no more than concurrentConnections attempts are in the Connecting
\* state at a time.
\* Violated: initialize() starts connect() for every enabled agent in one
\* map() and never reads concurrentConnections.
C26_BoundedConcurrency ==
  Cardinality({c \in ConnIds : ConnState(c) = "Connecting"})
    <= aggregatorConfig.concurrentConnections

-----------------------------------------------------------------------------
(* C27 *)

RECURSIVE SumOf(_)
\* the sum of the toolCount values of a list of per-agent reports
SumOf(list) ==
  IF list = <<>> THEN 0 ELSE Head(list).toolCount + SumOf(Tail(list))

\* C27: every getStatus() result reports totalConnections equal to the number
\* of Ready connections and totalTools equal to the number of registry
\* entries, and its per-agent toolCount values add up to totalTools; after an
\* initialize() of two enabled agents of which one cannot be launched, with
\* no cleanup() called, totalConnections is 1.
\* Violated: totalConnections is the size of the connections Map, which
\* still holds the connections cleanup() is disconnecting.
C27_StatusCounts ==
  out.op = "getStatus" =>
    /\ out.status.totalConnections
         = Cardinality({c \in ConnIds : ConnState(c) = "Ready"})
    /\ out.status.totalTools = Len(tools)
    /\ SumOf(out.status.agents) = out.status.totalTools
    /\ (OneInvalidRestOk /\ Cardinality(EnabledAgents) = 2 /\ inits >= 1
          /\ initPc = "idle" /\ cleanups = 0) =>
         out.status.totalConnections = 1

-----------------------------------------------------------------------------
(* C28 *)

\* the operations that only read
ReadOps == {"getStatus", "getAgentsList", "listTools", "filter__get"}

\* C28: a step of getStatus, getAgentsList, listTools or filter__get, taken in
\* any state, leaves the connections Map, every connection object, the
\* registry, the initialized flag, the filter policy and the filter file as
\* they were.
C28_ReadsArePure ==
  [][out'.op \in ReadOps =>
       UNCHANGED <<conn, connections, tools, initialized, toolFilter,
                   filterFile>>]_vars

\* getStatus has returned on an aggregator with three registered tools, under
\* a saved policy that hides some of them
C28_Witness ==
  /\ out.op = "getStatus"
  /\ out.status.totalTools = 3
  /\ out.status.totalConnections = 2
  /\ toolFilter.excludePatterns # <<>>
  /\ filterFile.state = "saved"

-----------------------------------------------------------------------------
(* Routing with several calls in flight *)

MaxRouteCalls == 2

\* the configurations of the routing specification: every agent enabled,
\* with a server of its own that starts
RouteConfigs ==
  {c \in Configs : \A a \in Agents :
     c[a].enabled /\ c[a].launch = "ok" /\ c[a].pkg = "own"}

RouteInit ==
  /\ config \in RouteConfigs
  /\ aggregatorConfig = DefaultAggregator
  /\ Constructed([state |-> "absent"])

RouteNext ==
  \/ inits < MaxInits /\ InitializeStart
  \/ \E c \in ConnIds : HandshakeOk(c)
  \/ \E c \in ConnIds : ToolsListResponse(c, "tools")
  \/ InitializeReturn
  \/ \E c \in ConnIds : ServerExit(c)
  \/ \E id \in RegistrableIds, args \in ArgValues :
       ncalls < MaxRouteCalls /\ callTool(id, args)
  \/ \E call \in calls, isError \in BOOLEAN : CallResponse(call, isError)
  \/ \E call \in calls, cause \in FailureCauses :
       \E message \in FailureMessages(cause) : CallFailure(call, cause, message)

RouteSpec == RouteInit /\ [][RouteNext]_vars

\* the requests in flight on connection c
InFlight(c) == {call \in calls : call.request.conn = c}

-----------------------------------------------------------------------------
(* C29 *)

\* C29: no connection has more than one request in flight.
\* Violated: MCPConnection.callTool passes every request to client.request at
\* once; nothing queues a call behind an earlier one.
C29_OneInFlightPerConnection ==
  \A c \in ConnIds : Cardinality(InFlight(c)) <= 1

-----------------------------------------------------------------------------
(* C30 *)

\* C30: a callTool() for a tool of a connected connection, made while a
\* request is in flight on another connection, sends its request at once;
\* and the answer to a request in flight, or its timeout, can arrive
\* whatever is in flight on other connections.
C30_ConnectionsIndependent ==
  /\ (out.op = "callTool" /\ initialized /\ MapHas(tools, out.id)) =>
       LET owner == MapGet(tools, out.id).connection
       IN (isConnected(owner) /\ \E other \in calls : other.request.conn # owner) =>
            /\ out.kind = "pending"
            /\ Len(out.sent) = 1
            /\ \E call \in InFlight(owner) : call.k = ncalls /\ call.request = out.sent[1]
  /\ \A call \in calls :
       /\ conn[call.request.conn].link = "up" => ENABLED CallResponse(call, FALSE)
       /\ ENABLED CallFailure(call, "timeout", "Request timed out")

\* the second call, to another connection, has returned its answer while the
\* first call is still waiting for its own
C30_Witness ==
  /\ out.op = "callTool.settled"
  /\ out.kind = "returned"
  /\ ncalls = 2
  /\ \E call \in calls : call.k = 1 /\ call.request.conn # out.request.conn

-----------------------------------------------------------------------------
(* C31 *)

\* the descriptions a server may send with a tool; <<>> is none
Descriptions == {<<>>, s_read, s_nonexistent}

\* the registry reg had the servers sent the descriptions d, by position
Describe(reg, d) ==
  [i \in 1..Len(reg) |->
     [key |-> reg[i].key, val |-> reg[i].val @@ [description |-> d[i]]]]

\* where callTool routes toolName on the registry reg: the connection and the
\* name it forwards, or nothing
RouteOf(reg, toolName) ==
  {[connection |-> t.connection, name |-> ForwardedName(toolName, t)] :
     t \in registryGet(reg, toolName)}

\* C31: descriptions (and the capability tags derived by the helper) never
\* affect routing or filtering. Whatever descriptions the entries of the
\* registry carry, under the policy in force listTools returns the same set of
\* names, and callTool routes every public id to the same connection and
\* original name, as on the registry whose entries carry no description.
C31_DescriptionsDoNotMatter ==
  \A d \in [1..Len(tools) -> Descriptions] :
    LET described == Describe(tools, d)
    IN /\ ListedNames(listToolsOf(described)) = ListedNames(listToolsOf(tools))
       /\ \A id \in CallIds : RouteOf(described, id) = RouteOf(tools, id)

\* listTools has returned under a policy with an exclude pattern that one of
\* the descriptions contains, with a tool listed that the pattern does not
\* match by its ids
C31_Witness ==
  /\ out.op = "listTools" /\ out.kind = "returned"
  /\ Len(toolFilter.includePatterns) = 0
  /\ \E i \in 1..Len(toolFilter.excludePatterns) :
       \E d \in Descriptions : Includes(d, toolFilter.excludePatterns[i])
  /\ \E i \in 1..Len(tools) :
       /\ shouldIncludeTool(tools[i].key, tools[i].val)
       /\ extractCapabilitiesFromTools(tools, tools[i].val.agentName)
            # {[tag |-> "no tools available"]}

-----------------------------------------------------------------------------
(* C32 *)

\* the elements of a list of the policy
ElementsOf(list) == {list[i] : i \in 1..Len(list)}

\* the exclude rules, stated on a registry entry: its namespace is excluded,
\* or an exclude pattern is a substring of its public id or original name
ExcludedByRules(e) ==
  \/ e.val.mcpServerName \in ElementsOf(toolFilter.excludeServers)
  \/ \E p \in ElementsOf(toolFilter.excludePatterns) :
       Includes(e.key, p) \/ Includes(e.val.originalName, p)

\* C32: with includePatterns empty, shouldIncludeTool is false of a registry
\* entry if and only if its namespace is in excludeServers or some exclude
\* pattern is a substring of its public id or of its original name, and a
\* listTools result lists exactly the entries it is true of; with the three
\* lists empty every registry entry is included.
C32_ExcludeRulesExact ==
  Len(toolFilter.includePatterns) = 0 =>
    /\ \A i \in 1..Len(tools) :
         shouldIncludeTool(tools[i].key, tools[i].val)
           <=> ~ExcludedByRules(tools[i])
    /\ (out.op = "listTools" /\ out.kind = "returned") =>
         \A i \in 1..Len(tools) :
           (\E j \in 1..Len(RegularPart(out.tools)) :
              RegularPart(out.tools)[j].name = tools[i].key)
             <=> ~ExcludedByRules(tools[i])
    /\ toolFilter = DefaultFilter =>
         \A i \in 1..Len(tools) : shouldIncludeTool(tools[i].key, tools[i].val)

\* with no include pattern, listTools has returned a tool no rule excludes
\* and left out one whose namespace is excluded and one whose name contains
\* an exclude pattern
C32_Witness ==
  /\ out.op = "listTools" /\ out.kind = "returned"
  /\ Len(toolFilter.includePatterns) = 0
  /\ toolFilter.excludeServers = <<s_aggregator, s_fs>>
  /\ toolFilter.excludePatterns = <<s_filter, s_read>>
  /\ MapHas(tools, PublicId(s_fs, s_read))
  /\ MapHas(tools, PublicId(s_agentA, s_read))
  /\ ListedNames(out.tools) = <<PublicId(s_agentA, s_echo)>> \o AdminIds

-----------------------------------------------------------------------------
(* A specification of repeated initialize() calls: up to MaxRounds calls,     *)
(* cleanup(), listTools and the filter handlers, every agent's command valid *)

\* the configurations: every agent enabled, each launching its own server
ReinitConfigs ==
  {c \in Configs : \A a \in Agents :
     c[a].enabled /\ c[a].launch = "ok" /\ c[a].pkg = "own"}

\* the arguments of the filter__update requests made
ReinitArgs == {p \in FilterArgs : p = [excludePatterns |-> <<s_filter, s_read>>]}

ReinitInit ==
  /\ config \in ReinitConfigs
  /\ aggregatorConfig = DefaultAggregator
  /\ Constructed([state |-> "absent"])

ReinitNext ==
  \/ inits < MaxRounds /\ InitializeStart
  \/ \E c \in ConnIds : HandshakeOk(c)
  \/ \E c \in ConnIds : ToolsListResponse(c, "tools")
  \/ \E c \in ConnIds : ToolsListError(c, FALSE)
  \/ InitializeReturn
  \/ CleanupStart
  \/ \E c \in ConnIds : DiscClientClosed(c, FALSE)
  \/ \E c \in ConnIds : DiscTransportClosed(c, FALSE)
  \/ CleanupFinish
  \/ ListTools
  \/ \E args \in ReinitArgs : FilterUpdate(args, TRUE)
  \/ FilterReset(TRUE)

ReinitSpec == ReinitInit /\ [][ReinitNext]_vars

-----------------------------------------------------------------------------
(* C33 *)

\* the policy most recently set: the lists of the last filter__update or
\* filter__reset request, a missing one empty; before any, the policy loaded
\* from the file
LatestPolicy ==
  IF lastP.set
  THEN [excludePatterns |-> OrEmpty(lastP.args, "excludePatterns"),
        excludeServers |-> OrEmpty(lastP.args, "excludeServers"),
        includePatterns |-> OrEmpty(lastP.args, "includePatterns")]
  ELSE loadFilterConfig(filterFile)

\* the filter predicate of the design, on a registry entry and a policy
PolicyIncludes(policy, e) ==
  LET Hit(list) == \E i \in 1..Len(list) :
                     Includes(e.key, list[i]) \/ Includes(e.val.originalName, list[i])
  IN IF Len(policy.includePatterns) > 0 THEN Hit(policy.includePatterns)
     ELSE /\ \A i \in 1..Len(policy.excludeServers) :
               policy.excludeServers[i] # e.val.mcpServerName
          /\ ~Hit(policy.excludePatterns)

\* the registry keys whose entry connection c owns
OwnedKeys(c) == {tools[i].key : i \in {j \in 1..Len(tools) : tools[j].val.connection = c}}

\* the public ids of the whole tool list of an agent's server
WholeList(a) ==
  {PublicId(extractMCPServerName(a), ServerTools(a)[i]) : i \in 1..Len(ServerTools(a))}

\* C33: each listTools result is the filter predicate applied to the registry
\* as it is under the policy most recently set (never the previous one, never
\* a mix), followed by the administrative tools; and no state in between
\* holds a part of a tool list being registered: a step that gives a
\* connection an entry gives it, in that one step, every entry of its
\* server's list, also while a later initialize() is registering.
C33_ListIsOneSnapshot ==
  /\ []((out.op = "listTools" /\ out.kind = "returned") =>
          LET kept == SelectSeq(tools, LAMBDA e : PolicyIncludes(LatestPolicy, e))
          IN ListedNames(out.tools)
               = [i \in 1..Len(kept) |-> kept[i].key] \o AdminIds)
  /\ [][\A c \in ConnIds :
          OwnedKeys(c)' \ OwnedKeys(c) # {}
            => OwnedKeys(c)' = WholeList(AgentOf(c))]_vars

\* listTools has returned during the second initialize(), after a
\* filter__update that replaced an earlier policy, with one agent's tools
\* registered by the new connection and the other's still by the old one
C33_Witness ==
  /\ out.op = "listTools" /\ out.kind = "returned"
  /\ inits = 2 /\ initPc = "waiting"
  /\ lastP.set /\ LatestPolicy # DefaultFilter
  /\ \E c \in RoundConns(1) : OwnedKeys(c) # {}
  /\ \E c \in RoundConns(2) : OwnedKeys(c) # {}
  /\ Len(out.tools) < Len(tools) + 3

-----------------------------------------------------------------------------
(* C34 *)

\* the steps of a routed call: callTool up to its await, and its settling
CallOps == {"callTool", "callTool.settled"}

\* C34: routing a regular tool changes nothing but the requests in flight.
\* No step of a call (its start, whether it throws NotInitialized,
\* ToolNotFound or NotConnected or sends the request, and its end, by an
\* answer, a timeout, an error response or a closed connection) changes the
\* connections Map, the state of any connection, the registry, the filter
\* policy, its file or the initialized flag; so a timed-out call leaves its
\* tool registered and its connection Ready.
C34_RoutingHasNoSideEffect ==
  [][out'.op \in CallOps =>
       /\ UNCHANGED <<connections, tools, toolFilter, filterFile, initialized>>
       /\ \A c \in ConnIds :
            /\ ConnState(c)' = ConnState(c)
            /\ isConnected(c)' = isConnected(c)]_vars

\* a call has timed out; its tool is registered and its connection Ready
C34_Witness ==
  /\ out.op = "callTool.settled"
  /\ out.kind = "threw"
  /\ out.cause = "timeout"
  /\ MapHas(tools, out.id)
  /\ MapGet(tools, out.id).connection = out.request.conn
  /\ ConnState(out.request.conn) = "Ready"

-----------------------------------------------------------------------------
(* C35 *)

\* C35: filter__update replaces the whole policy. When it has returned, each
\* of the three lists of the policy, and of the filter it reports, is the list
\* the request carried, and the empty list where the request carried none,
\* whatever the list was before.
C35_UpdateReplaces ==
  (out.op = "filter__update" /\ out.kind = "returned") =>
    \A f \in FilterFields :
      /\ f \in DOMAIN lastP.args => toolFilter[f] = lastP.args[f]
      /\ f \notin DOMAIN lastP.args => toolFilter[f] = <<>>
      /\ out.filter[f] = toolFilter[f]

\* filter__update has returned for a request that carried excludeServers
\* only, while the policy it replaced had a non-empty list of another kind
C35_Witness ==
  /\ out.op = "filter__update" /\ out.kind = "returned"
  /\ DOMAIN lastP.args = {"excludeServers"}
  /\ lastP.args["excludeServers"] = <<s_aggregator, s_fs>>
  /\ out.dropped
  /\ toolFilter = [excludePatterns |-> <<>>,
                   excludeServers |-> <<s_aggregator, s_fs>>,
                   includePatterns |-> <<>>]

-----------------------------------------------------------------------------
(* C36 *)

\* connect() has returned on the object and no disconnect() has been called
\* on it since
Established(c) ==
  conn[c].pc \in {"listing", "listing_raw", "done"} /\ conn[c].connected

\* C36: as long as no cleanup() has been called while an initialize() was
\* running, every connection that is established and not yet disconnected is
\* held in the connections Map, and when a cleanup() has returned no
\* connection is connected or has a live server process.
\* Violated: a second initialize() stores its new connections under the same
\* agent names, so the connections of the first leave the Map while still
\* connected, and cleanup() never disconnects them.
C36_LiveConnectionsHeld ==
  shutdown.racedRound = 0 =>
    /\ \A c \in ConnIds : Established(c) => c \in MapValues(connections)
    /\ (out = Returned("cleanup") /\ initPc = "idle") =>
         \A c \in ConnIds : ~conn[c].connected /\ ~Live(c)

-----------------------------------------------------------------------------
(* A specification of listing and routing under filter updates, with agent   *)
(* configurations that include a package named filter                        *)

\* the configurations: every agent enabled with a command that starts; the
\* first agent launches its own package or the package named filter
ClashConfigs ==
  {c \in [Agents -> [enabled : {TRUE}, launch : {"ok"}, pkg : {"own", "filter"}]] :
     \A a \in Agents : c[a].pkg = "filter" => a = 1}

ClashInit ==
  /\ config \in ClashConfigs
  /\ aggregatorConfig = DefaultAggregator
  /\ Constructed([state |-> "absent"])

ClashNext ==
  \/ inits < MaxInits /\ InitializeStart
  \/ \E c \in ConnIds : HandshakeOk(c)
  \/ \E c \in ConnIds, fmt \in ResponseFormats : ToolsListResponse(c, fmt)
  \/ \E c \in ConnIds : ToolsListError(c, FALSE)
  \/ InitializeReturn
  \/ ListTools
  \/ \E args \in ReinitArgs : FilterUpdate(args, TRUE)
  \/ FilterGet
  \/ FilterReset(TRUE)
  \/ \E id \in CallIds, args \in ArgValues :
       ncalls < MaxCalls /\ callTool(id, args)
  \/ \E call \in calls, isError \in BOOLEAN : CallResponse(call, isError)
  \/ \E call \in calls, cause \in FailureCauses :
       \E message \in FailureMessages(cause) : CallFailure(call, cause, message)

ClashSpec == ClashInit /\ [][ClashNext]_vars

-----------------------------------------------------------------------------
(* C37 *)

\* C37: the public ids of the registry are pairwise distinct and none of them
\* is filter__update, filter__get or filter__reset, and no listTools result
\* holds two entries of one name.
\* Violated: the tool update of a server whose namespace is filter is
\* registered as filter__update, and listTools appends the filter management
\* tool of that name to it.
C37_ListedNamesDistinct ==
  /\ \A i, j \in 1..Len(tools) : tools[i].key = tools[j].key => i = j
  /\ \A i \in 1..Len(tools), k \in 1..Len(AdminIds) : tools[i].key # AdminIds[k]
  /\ (out.op = "listTools" /\ out.kind = "returned") =>
       \A i, j \in 1..Len(out.tools) :
         out.tools[i].name = out.tools[j].name => i = j

-----------------------------------------------------------------------------
(* C38 *)

\* the current policy keeps the registered public id out of the listing
Hidden(id) ==
  /\ MapHas(tools, id)
  /\ ~PolicyIncludes(toolFilter, [key |-> id, val |-> MapGet(tools, id)])
  /\ \A i \in 1..Len(listToolsResult) - 3 : listToolsResult[i].name # id

\* C38: the filter policy has no part in routing. A callTool() on a registered
\* public id which the current policy hides from listTools has the outcome it
\* has under the all-empty policy: the request, with the original name and
\* the caller's arguments, is sent to the connection that owns the entry (or
\* NotConnected is thrown if that connection is not connected), and the
\* answer returned is that of the server the request was sent to.
C38_HiddenToolsStillRouted ==
  /\ (out.op = "callTool" /\ initialized /\ Hidden(out.id)) =>
       LET tool == MapGet(tools, out.id)
       IN IF isConnected(tool.connection)
          THEN /\ out.kind = "pending"
               /\ out.sent = <<CallRequest(tool.connection, tool.originalName,
                                           ArgsOrDefault(out.args))>>
          ELSE /\ out.kind = "threw"
               /\ out.error = NotConnected(tool.connection)
  /\ (out.op = "callTool.settled" /\ out.kind = "returned" /\ Hidden(out.id)) =>
       /\ out.result.server = AgentOf(out.request.conn)
       /\ out.result.tool = out.request.name
       /\ out.result.arguments = out.request.arguments

\* agentA's server has answered a call of agentA__read made while the exclude
\* pattern "read" hides the tool
C38_Witness ==
  /\ out.op = "callTool.settled"
  /\ out.kind = "returned"
  /\ out.id = PublicId(s_agentA, s_read)
  /\ toolFilter.excludePatterns = <<s_filter, s_read>>
  /\ Hidden(out.id)
  /\ out.result.tool = s_read

-----------------------------------------------------------------------------
(* C39 *)

\* C39: for every connected agent of a getAgentsList result, the toolCount it
\* reports is the toolCount getStatus reports for the agent of that name,
\* which is the number of registry entries the agent owns.
\* Violated: getAgentsList reads connection.tools, which no code sets, and
\* reports 0 for an agent whose tools are registered.
C39_AgentsListToolCount ==
  out.op = "getAgentsList" =>
    \A i \in 1..Len(out.agents) :
      out.agents[i].connected =>
        /\ \A j \in 1..Len(getStatus.agents) :
             getStatus.agents[j].name = out.agents[i].name =>
               out.agents[i].toolCount = getStatus.agents[j].toolCount
        /\ out.agents[i].toolCount
             = Cardinality({k \in 1..Len(tools) :
                              tools[k].val.agentName = out.agents[i].name})

====
